---- MODULE Spec2Model ----
(***************************************************************************)
(* Model of portage-atom-resolvo: the interning pool (src/src/pool.rs),    *)
(* the PMS version-match predicate (src/src/version_match.rs) and the      *)
(* dependency provider (src/src/provider.rs) that compiles a repository,   *)
(* a UseConfig and an InstalledSet into resolvo requirements/constrains.   *)
(*                                                                         *)
(* Encoding conventions                                                    *)
(*   Option<T>      a set with at most one element: {} is None, {x} Some(x)*)
(*   Vec<T>         a sequence; resolvo ids are 0-based, so id i of an     *)
(*                  arena is element i+1 of the sequence                   *)
(*   HashMap<K,V>   a function whose DOMAIN is the set of present keys     *)
(*   HashSet<T>     a set                                                  *)
(***************************************************************************)
EXTENDS Integers, Sequences, FiniteSets, TLC

VARIABLES
    pc,               \* position of the running program
    pool,             \* PortagePool
    issued,           \* history: per axis, the (id, value) pairs in issue order
    vs_calls,         \* history: the intern_version_set calls made so far
    steps,            \* number of caller operations performed so far
    repo,             \* InMemoryRepository.packages : Cpn -> Vec<PackageMetadata>
    use_config,       \* UseConfig
    installed,        \* InstalledSet.packages : Vec<(PackageMetadata, InstalledPolicy)>
    root_atoms,       \* the atoms the caller may pass to intern_requirement
    todo,             \* with_installed: CPNs of repo.all_packages() not yet visited
    flags_todo,       \* with_installed: solver-decided flags not yet visited
    solvable_meta,    \* with_installed: (sid, deps) pairs still to convert
    found_installed,  \* with_installed: installed CPVs found in the repository
    xof_counter,      \* with_installed: next ^^ / ?? group id
    candidates,       \* provider.candidates : NameId -> Vec<SolvableId>
    dependencies,     \* provider.dependencies : SolvableId -> KnownDependencies
    cpn_slots,        \* provider.cpn_slots : Cpn -> Vec<NameId>
    blocker_types,    \* provider.blocker_types : VersionSetId -> Blocker
    rebuild_triggers, \* provider.rebuild_triggers : set of VersionSetId
    flag_virtuals,    \* provider.flag_virtuals : flag -> FlagVirtuals
    favored,          \* provider.favored : NameId -> SolvableId
    locked,           \* provider.locked : NameId -> SolvableId
    origins,          \* history: the version sets each converted atom produced
    roots,            \* Problem.requirements built by the caller
    solution,         \* result of Solver::solve: none yet, or the selected solvables
    order_runs,       \* history: the install_order calls made on the solution
    sort_runs,        \* history: the sort_candidates calls made by the solver
    match_run         \* the version_matches call under test and its result

inputVars == <<repo, use_config, installed, root_atoms>>
buildVars == <<todo, flags_todo, solvable_meta, found_installed, xof_counter>>
tableVars == <<candidates, dependencies, cpn_slots, blocker_types,
               rebuild_triggers, flag_virtuals, favored, locked>>
callerVars == <<origins, roots, solution, order_runs>>
queryVars == <<sort_runs, match_run>>
providerVars == <<inputVars, buildVars, tableVars, callerVars, queryVars>>
poolHistory == <<issued, vs_calls, steps>>
vars == <<pc, pool, poolHistory, providerVars>>

\* ------------------------------------------------------------------------
\* Option helpers
\* ------------------------------------------------------------------------
None == {}
Some(x) == {x}
IsSome(o) == o # {}
Unwrap(o) == CHOOSE x \in o : TRUE

\* Sequence helpers
Last(s) == s[Len(s)]
SeqToSet(s) == {s[i] : i \in 1..Len(s)}
Contains(s, x) == \E i \in 1..Len(s) : s[i] = x

\* HashMap helpers
MapGet(m, k) == IF k \in DOMAIN m THEN Some(m[k]) ELSE None
MapInsert(m, k, v) == [x \in DOMAIN m \cup {k} |-> IF x = k THEN v ELSE m[x]]
EmptyMap == [x \in {} |-> 0]

\* ------------------------------------------------------------------------
\* portage_atom::Version and its PMS total order
\* ------------------------------------------------------------------------
\* A version: dotted numbers, optional letter (0 = none, 1 = a, 2 = b ...),
\* suffixes (sequence of <<rank, number>>) and revision.
Ver(numbers, letter, suffixes, revision) ==
    [numbers |-> numbers, letter |-> letter, suffixes |-> suffixes,
     revision |-> revision]

\* Suffix ranks: _alpha < _beta < _pre < _rc < (none) < _p
SufRank == [alpha |-> 0, beta |-> 1, pre |-> 2, rc |-> 3, none |-> 4, p |-> 5]

\* Three-way comparison of naturals: -1, 0, 1.
CmpNat(a, b) == IF a < b THEN -1 ELSE IF a > b THEN 1 ELSE 0

\* Lexicographic comparison of number sequences; a proper prefix is smaller.
RECURSIVE CmpNumbers(_, _)
CmpNumbers(a, b) ==
    IF a = <<>> /\ b = <<>> THEN 0
    ELSE IF a = <<>> THEN -1
    ELSE IF b = <<>> THEN 1
    ELSE IF Head(a) # Head(b) THEN CmpNat(Head(a), Head(b))
    ELSE CmpNumbers(Tail(a), Tail(b))

\* Suffix lists: compare pairwise, a missing suffix ranks as "none".
RECURSIVE CmpSuffixes(_, _)
CmpSuffixes(a, b) ==
    IF a = <<>> /\ b = <<>> THEN 0
    ELSE LET ha == IF a = <<>> THEN <<SufRank.none, 0>> ELSE Head(a)
             hb == IF b = <<>> THEN <<SufRank.none, 0>> ELSE Head(b)
         IN IF ha[1] # hb[1] THEN CmpNat(ha[1], hb[1])
            ELSE IF ha[2] # hb[2] THEN CmpNat(ha[2], hb[2])
            ELSE CmpSuffixes(IF a = <<>> THEN a ELSE Tail(a),
                             IF b = <<>> THEN b ELSE Tail(b))

\* Version::cmp : numbers, letter, suffixes, revision.
VersionCmp(a, b) ==
    LET n == CmpNumbers(a.numbers, b.numbers)
        l == CmpNat(a.letter, b.letter)
        s == CmpSuffixes(a.suffixes, b.suffixes)
    IN IF n # 0 THEN n
       ELSE IF l # 0 THEN l
       ELSE IF s # 0 THEN s
       ELSE CmpNat(a.revision, b.revision)

\* Version::base : the version without its revision.
VersionBase(v) == [v EXCEPT !.revision = 0]

\* ------------------------------------------------------------------------
\* version_match.rs
\* ------------------------------------------------------------------------
\* Variant of glob_matches that ignores the letters.
glob_matches_noletter(candidate, constraint) ==
    IF Len(candidate.numbers) < Len(constraint.numbers) THEN FALSE
    ELSE ~ \E i \in 1..Len(constraint.numbers) :
                candidate.numbers[i] # constraint.numbers[i]

\* glob_matches: the constraint's numbers are a prefix of the candidate's,
\* and the constraint's letter, if any, equals the candidate's.
glob_matches(candidate, constraint) ==
    IF Len(candidate.numbers) < Len(constraint.numbers) THEN FALSE
    ELSE IF \E i \in 1..Len(constraint.numbers) :
                candidate.numbers[i] # constraint.numbers[i] THEN FALSE
    ELSE IF constraint.letter # 0
         THEN candidate.letter # 0 /\ candidate.letter = constraint.letter
         ELSE TRUE

version_matches(candidate, op, constraint) ==
    CASE op = "Less" -> VersionCmp(candidate, constraint) < 0
      [] op = "LessOrEqual" -> VersionCmp(candidate, constraint) <= 0
      [] op = "Equal" -> VersionCmp(candidate, constraint) = 0
      [] op = "GreaterOrEqual" -> VersionCmp(candidate, constraint) >= 0
      [] op = "Greater" -> VersionCmp(candidate, constraint) > 0
      [] op = "Approximate" -> VersionBase(candidate) = VersionBase(constraint)
      [] op = "EqualGlob" -> glob_matches(candidate, constraint)

Operators == {"Less", "LessOrEqual", "Equal", "GreaterOrEqual", "Greater",
              "Approximate", "EqualGlob"}

\* ------------------------------------------------------------------------
\* pool.rs : value types
\* ------------------------------------------------------------------------
PackageName(cpn, slot) == [cpn |-> cpn, slot |-> slot]

Cpv(cpn, version) == [cpn |-> cpn, version |-> version]

\* PackageDeps: one list of DepEntry per class.
PackageDeps(depend, rdepend, bdepend, pdepend, idepend) ==
    [depend |-> depend, rdepend |-> rdepend, bdepend |-> bdepend,
     pdepend |-> pdepend, idepend |-> idepend]

PackageDepsDefault == PackageDeps(<<>>, <<>>, <<>>, <<>>, <<>>)

\* PackageDeps::iter_classes: the classes in declaration order, empty ones
\* filtered out.
iter_classes(deps) ==
    SelectSeq(<< <<"Depend", deps.depend>>, <<"Rdepend", deps.rdepend>>,
                 <<"Bdepend", deps.bdepend>>, <<"Pdepend", deps.pdepend>>,
                 <<"Idepend", deps.idepend>> >>,
              LAMBDA ce : ce[2] # <<>>)

PackageMetadata(cpv, slot, subslot, use_flags, repository, deps) ==
    [cpv |-> cpv, slot |-> slot, subslot |-> subslot, iuse |-> <<>>,
     use_flags |-> use_flags, repo |-> repository, dependencies |-> deps]

VersionConstraint(cpn, operator, version, slot, subslot, repository, uses, inverted) ==
    [cpn |-> cpn, operator |-> operator, version |-> version, slot |-> slot,
     subslot |-> subslot, repo |-> repository, use_constraints |-> uses,
     inverted |-> inverted]

\* ------------------------------------------------------------------------
\* pool.rs : PortagePool
\* ------------------------------------------------------------------------
PoolNew ==
    [names |-> <<>>, names_rev |-> EmptyMap,
     solvables |-> <<>>, solvable_names |-> <<>>,
     version_sets |-> <<>>, version_set_names |-> <<>>,
     version_sets_rev |-> EmptyMap,
     version_set_unions |-> <<>>, conditions |-> <<>>, strings |-> <<>>]

\* Each intern_* returns [pool |-> the pool afterwards, id |-> the id].
intern_name(p, name) ==
    IF name \in DOMAIN p.names_rev
    THEN [pool |-> p, id |-> p.names_rev[name]]
    ELSE LET id == Len(p.names)
         IN [pool |-> [p EXCEPT !.names_rev = MapInsert(@, name, id),
                                !.names = Append(@, name)],
             id |-> id]

resolve_name(p, id) == p.names[id + 1]

intern_solvable(p, name_id, meta) ==
    LET id == Len(p.solvables)
    IN [pool |-> [p EXCEPT !.solvables = Append(@, meta),
                           !.solvable_names = Append(@, name_id)],
        id |-> id]

resolve_solvable(p, id) == p.solvables[id + 1]

solvable_name(p, id) == p.solvable_names[id + 1]

\* Variant of intern_version_set that skips the reverse-map lookup.
intern_version_set_nodedup(p, name_id, constraint) ==
    LET id == Len(p.version_sets)
    IN [pool |-> [p EXCEPT !.version_sets_rev = MapInsert(@, constraint, id),
                           !.version_sets = Append(@, constraint),
                           !.version_set_names = Append(@, name_id)],
        id |-> id]

\* Variant of intern_version_set whose ids start at 1.
intern_version_set_offbyone(p, name_id, constraint) ==
    IF constraint \in DOMAIN p.version_sets_rev
    THEN [pool |-> p, id |-> p.version_sets_rev[constraint]]
    ELSE LET id == Len(p.version_sets) + 1
         IN [pool |-> [p EXCEPT !.version_sets_rev = MapInsert(@, constraint, id),
                                !.version_sets = Append(@, constraint),
                                !.version_set_names = Append(@, name_id)],
             id |-> id]

intern_version_set(p, name_id, constraint) ==
    IF constraint \in DOMAIN p.version_sets_rev
    THEN [pool |-> p, id |-> p.version_sets_rev[constraint]]
    ELSE LET id == Len(p.version_sets)
         IN [pool |-> [p EXCEPT !.version_sets_rev = MapInsert(@, constraint, id),
                                !.version_sets = Append(@, constraint),
                                !.version_set_names = Append(@, name_id)],
             id |-> id]

resolve_version_set(p, id) == p.version_sets[id + 1]

version_set_name(p, id) == p.version_set_names[id + 1]

version_set_count(p) == Len(p.version_sets)

intern_version_set_union(p, sets) ==
    LET id == Len(p.version_set_unions)
    IN [pool |-> [p EXCEPT !.version_set_unions = Append(@, sets)], id |-> id]

resolve_version_set_union(p, id) == p.version_set_unions[id + 1]

\* resolvo::Condition::Requirement(vs) is stored as the version-set id.
intern_condition(p, condition) ==
    LET id == Len(p.conditions)
    IN [pool |-> [p EXCEPT !.conditions = Append(@, condition)], id |-> id]

resolve_condition(p, id) == p.conditions[id + 1]

intern_string(p, s) ==
    LET id == Len(p.strings)
    IN [pool |-> [p EXCEPT !.strings = Append(@, s)], id |-> id]

resolve_string(p, id) == p.strings[id + 1]

\* ------------------------------------------------------------------------
\* portage_atom::Dep and DepEntry (the parser's output, consumed here)
\* ------------------------------------------------------------------------
\* Dep: version is Option<[op : Option<Operator>, ver : Version]>;
\* slot_dep is [kind, slot, subslot, op] with kind "None" (no slot dep),
\* "Slot" (SlotDep::Slot) or "Operator" (SlotDep::Operator);
\* use_deps is a sequence of [flag, kind]; blocker is Option<"Weak"|"Strong">.
NoSlotDep == [kind |-> "None", slot |-> None, subslot |-> None, op |-> None]
SlotNamed(slot, subslot, op) ==
    [kind |-> "Slot", slot |-> Some(slot), subslot |-> subslot, op |-> op]
SlotStar == [kind |-> "Operator", slot |-> None, subslot |-> None, op |-> Some("Star")]
SlotEqual == [kind |-> "Operator", slot |-> None, subslot |-> None, op |-> Some("Equal")]

Dep(cpn) ==
    [cpn |-> cpn, version |-> None, slot_dep |-> NoSlotDep, repo |-> None,
     use_deps |-> <<>>, blocker |-> None]
DepV(cpn, op, ver) == [Dep(cpn) EXCEPT !.version = Some([op |-> Some(op), ver |-> ver])]
WithSlot(dep, slot_dep) == [dep EXCEPT !.slot_dep = slot_dep]
WithRepo(dep, repository) == [dep EXCEPT !.repo = Some(repository)]
WithUse(dep, use_deps) == [dep EXCEPT !.use_deps = use_deps]
Weak(dep) == [dep EXCEPT !.blocker = Some("Weak")]
Strong(dep) == [dep EXCEPT !.blocker = Some("Strong")]

\* DepEntry, one record shape for the five variants.
Atom(dep) ==
    [t |-> "Atom", dep |-> dep, flag |-> "", negate |-> FALSE, children |-> <<>>]
AnyOf(children) ==
    [t |-> "AnyOf", dep |-> Dep(""), flag |-> "", negate |-> FALSE,
     children |-> children]
ExactlyOneOf(children) ==
    [t |-> "ExactlyOneOf", dep |-> Dep(""), flag |-> "", negate |-> FALSE,
     children |-> children]
AtMostOneOf(children) ==
    [t |-> "AtMostOneOf", dep |-> Dep(""), flag |-> "", negate |-> FALSE,
     children |-> children]
UseConditional(flag, negate, children) ==
    [t |-> "UseConditional", dep |-> Dep(""), flag |-> flag, negate |-> negate,
     children |-> children]

\* UseConfig
UseConfig(enabled, disabled, solver_decided) ==
    [enabled |-> enabled, disabled |-> disabled, solver_decided |-> solver_decided]

\* String order of the flag names that occur (String::cmp).
FlagOrder == <<"debug", "ssl", "zlib">>
FlagRank(f) == CHOOSE i \in 1..Len(FlagOrder) : FlagOrder[i] = f

\* ------------------------------------------------------------------------
\* provider.rs : helpers
\* ------------------------------------------------------------------------
\* extract_slot: <<slot, subslot>>; `:*`, `:=` and no slot dep give (None, None).
extract_slot(dep) ==
    IF dep.slot_dep.kind = "Slot" /\ IsSome(dep.slot_dep.slot)
    THEN <<dep.slot_dep.slot, dep.slot_dep.subslot>>
    ELSE <<None, None>>

\* has_slot_equal_op: bare `:=` or named `:SLOT=`.
has_slot_equal_op(dep) ==
    \/ dep.slot_dep.kind = "Operator" /\ dep.slot_dep.op = Some("Equal")
    \/ dep.slot_dep.kind = "Slot" /\ dep.slot_dep.op = Some("Equal")

\* bare_version: the version with its operator stripped.
bare_version(v) == v.ver

\* dep_op_version: <<operator, version>>, `>=0` for an unversioned atom.
dep_op_version(dep) ==
    IF IsSome(dep.version)
    THEN LET v == Unwrap(dep.version)
         IN <<IF IsSome(v.op) THEN Unwrap(v.op) ELSE "Equal", bare_version(v)>>
    ELSE <<"GreaterOrEqual", Ver(<<0>>, 0, <<>>, 0)>>

\* Stable insertion of one (flag, state) pair into a list sorted by flag name.
RECURSIVE SortedInsert(_, _)
SortedInsert(sorted, x) ==
    IF sorted = <<>> THEN <<x>>
    ELSE IF FlagRank(x[1]) < FlagRank(Head(sorted)[1])
         THEN <<x>> \o sorted
         ELSE <<Head(sorted)>> \o SortedInsert(Tail(sorted), x)

RECURSIVE SortByFlag(_)
SortByFlag(s) ==
    IF s = <<>> THEN <<>>
    ELSE SortedInsert(SortByFlag(SubSeq(s, 1, Len(s) - 1)), s[Len(s)])

\* The pairs one UseDep contributes.
use_dep_pairs(ud, cfg) ==
    LET parent_flag_on == ud.flag \in cfg.enabled
    IN CASE ud.kind = "Enabled" -> << <<ud.flag, TRUE>> >>
         [] ud.kind = "Disabled" -> << <<ud.flag, FALSE>> >>
         [] ud.kind = "Conditional" ->
                IF parent_flag_on THEN << <<ud.flag, TRUE>> >> ELSE <<>>
         [] ud.kind = "ConditionalInverse" ->
                IF ~parent_flag_on THEN << <<ud.flag, TRUE>> >> ELSE <<>>
         [] ud.kind = "Equal" -> << <<ud.flag, parent_flag_on>> >>
         [] ud.kind = "EqualInverse" -> << <<ud.flag, ~parent_flag_on>> >>

RECURSIVE use_dep_list(_, _)
use_dep_list(use_deps, cfg) ==
    IF use_deps = <<>> THEN <<>>
    ELSE use_dep_pairs(Head(use_deps), cfg) \o use_dep_list(Tail(use_deps), cfg)

\* resolve_use_deps: (flag, must_be_enabled) pairs sorted by flag name.
resolve_use_deps(dep, cfg) == SortByFlag(use_dep_list(dep.use_deps, cfg))

\* The USE-dep loop shared by slot_matches and dep_matches_solvable.
use_constraints_match(meta, use_constraints) ==
    \A i \in 1..Len(use_constraints) :
        (use_constraints[i][1] \in meta.use_flags) = use_constraints[i][2]

\* slot_matches: slot, sub-slot, repository and USE deps of the constraint.
slot_matches(meta, constraint) ==
    /\ IsSome(constraint.slot) => meta.slot = constraint.slot
    /\ IsSome(constraint.subslot) => meta.subslot = constraint.subslot
    /\ IsSome(constraint.repo) => meta.repo = constraint.repo
    /\ use_constraints_match(meta, constraint.use_constraints)

\* dep_matches_solvable: the post-solve counterpart of filter_candidates.
dep_matches_solvable(dep, meta, cfg) ==
    LET ov == dep_op_version(dep)
        ss == extract_slot(dep)
    IN /\ dep.cpn = meta.cpv.cpn
       /\ version_matches(meta.cpv.version, ov[1], ov[2])
       /\ IsSome(ss[1]) => meta.slot = ss[1]
       /\ IsSome(ss[2]) => meta.subslot = ss[2]
       /\ IsSome(dep.repo) => meta.repo = dep.repo
       /\ use_constraints_match(meta, resolve_use_deps(dep, cfg))

\* Variant of candidate_matches that ignores the inverted bit.
candidate_matches_noflip(p, sid, constraint, inverse) ==
    LET meta == resolve_solvable(p, sid)
        matches == /\ version_matches(meta.cpv.version, constraint.operator,
                                       constraint.version)
                   /\ slot_matches(meta, constraint)
    IN IF inverse THEN ~matches ELSE matches

\* The closure of filter_candidates: whether solvable sid is kept.
candidate_matches(p, sid, constraint, inverse) ==
    LET meta == resolve_solvable(p, sid)
        matches == /\ version_matches(meta.cpv.version, constraint.operator,
                                       constraint.version)
                   /\ slot_matches(meta, constraint)
        flipped == IF constraint.inverted THEN ~matches ELSE matches
    IN IF inverse THEN ~flipped ELSE flipped

\* DependencyProvider::filter_candidates
filter_candidates(p, solvables, version_set, inverse) ==
    LET constraint == resolve_version_set(p, version_set)
    IN SelectSeq(solvables,
                 LAMBDA sid : candidate_matches(p, sid, constraint, inverse))

\* ------------------------------------------------------------------------
\* provider.rs : dependency-tree conversion
\* ------------------------------------------------------------------------
\* ConditionalRequirement { condition, requirement }: kind is "Single" (id is a
\* version-set id) or "Union" (id is a union id).
Req(condition, kind, id) == [condition |-> condition, kind |-> kind, id |-> id]

KnownDependencies(requirements, constrains) ==
    [requirements |-> requirements, constrains |-> constrains]

version_zero == Ver(<<0>>, 0, <<>>, 0)

\* The conversion state `a` is the ConvertContext (pool, cpn_slots,
\* blocker_types, rebuild_triggers, flag_virtuals, use_config,
\* encountered_flags, candidates, dep_map, xof_counter) together with the two
\* output vectors (requirements, constrains) of the running call, and the
\* history fields owner (the solvable whose tree is converted, if any) and
\* origins (which version sets each converted atom produced).

\* candidates.entry(name_id).or_default().push(sid)
MapPush(m, k, v) ==
    MapInsert(m, k, IF k \in DOMAIN m THEN Append(m[k], v) ELSE <<v>>)

\* History only: atom `dep`, converted at `site`, asked for the version sets
\* vs_ids under the names name_ids and emitted requirement req (if any).
Origin(a, dep, site, name_ids, vs_ids, req) ==
    [a EXCEPT !.origins = @ \cup {[dep |-> dep, site |-> site, owner |-> a.owner,
                                    name_ids |-> name_ids, vs_ids |-> vs_ids,
                                    req |-> req]}]

\* Variant of push_blocker that records the blocker type only.
push_blocker_typeonly(a, vs_id, blocker) ==
    [a EXCEPT !.blocker_types = IF IsSome(blocker)
                                THEN MapInsert(@, vs_id, Unwrap(blocker))
                                ELSE @]

\* push_blocker closure of convert_atom.
push_blocker(a, vs_id, blocker) ==
    [a EXCEPT !.constrains = Append(@, vs_id),
              !.blocker_types = IF IsSome(blocker)
                                THEN MapInsert(@, vs_id, Unwrap(blocker))
                                ELSE @]

\* mark_trigger closure of convert_atom.
mark_trigger(a, vs_id, is_rebuild_trigger) ==
    IF is_rebuild_trigger
    THEN [a EXCEPT !.rebuild_triggers = @ \cup {vs_id}]
    ELSE a

push_requirement(a, req) == [a EXCEPT !.requirements = Append(@, req)]

\* let union_id = intern_version_set_union(vs_ids);
\* requirements.push(ConditionalRequirement { None, Union(union_id) })
push_union(a, vs_ids) ==
    LET u == intern_version_set_union(a.pool, vs_ids)
    IN push_requirement([a EXCEPT !.pool = u.pool], Req(None, "Union", u.id))

\* names.iter().map(|&name_id| pool.intern_version_set(name_id, constraint))
RECURSIVE intern_each(_, _, _)
intern_each(p, names, constraint) ==
    IF names = <<>> THEN [pool |-> p, ids |-> <<>>]
    ELSE LET r == intern_version_set(p, Head(names), constraint)
             rest == intern_each(r.pool, Tail(names), constraint)
         IN [pool |-> rest.pool, ids |-> <<r.id>> \o rest.ids]

RECURSIVE mark_each(_, _, _)
mark_each(a, vs_ids, is_rebuild_trigger) ==
    IF vs_ids = <<>> THEN a
    ELSE mark_each(mark_trigger(a, Head(vs_ids), is_rebuild_trigger),
                   Tail(vs_ids), is_rebuild_trigger)

RECURSIVE push_blocker_each(_, _, _)
push_blocker_each(a, vs_ids, blocker) ==
    IF vs_ids = <<>> THEN a
    ELSE push_blocker_each(push_blocker(a, Head(vs_ids), blocker),
                           Tail(vs_ids), blocker)

\* The VersionConstraint convert_atom builds for `dep` with the given slot.
atom_constraint(dep, cfg, slot, subslot, inverted) ==
    LET ov == dep_op_version(dep)
    IN VersionConstraint(dep.cpn, ov[1], ov[2], slot, subslot, dep.repo,
                         resolve_use_deps(dep, cfg), inverted)

\* convert_atom, the three branches that target one name: intern the version
\* set, mark the trigger, then push a blocker constrain or a Single requirement.
convert_atom_single(dep, a, name_id, constraint) ==
    LET r == intern_version_set(a.pool, name_id, constraint)
        a1 == mark_trigger([a EXCEPT !.pool = r.pool], r.id, has_slot_equal_op(dep))
    IN IF IsSome(dep.blocker)
       THEN Origin(push_blocker(a1, r.id, dep.blocker), dep, "convert_atom",
                   <<name_id>>, <<r.id>>, None)
       ELSE Origin(push_requirement(a1, Req(None, "Single", r.id)), dep,
                   "convert_atom", <<name_id>>, <<r.id>>,
                   Some(Req(None, "Single", r.id)))

\* convert_atom, the branch for an unslotted atom whose CPN has several names.
convert_atom_multi(dep, a, names, constraint) ==
    LET r == intern_each(a.pool, names, constraint)
        a1 == mark_each([a EXCEPT !.pool = r.pool], r.ids, has_slot_equal_op(dep))
    IN IF IsSome(dep.blocker)
       THEN Origin(push_blocker_each(a1, r.ids, dep.blocker), dep, "convert_atom",
                   names, r.ids, None)
       ELSE IF Len(r.ids) = 1
       THEN Origin(push_requirement(a1, Req(None, "Single", r.ids[1])), dep,
                   "convert_atom", names, r.ids,
                   Some(Req(None, "Single", r.ids[1])))
       ELSE LET u == intern_version_set_union(a1.pool, r.ids)
            IN Origin(push_requirement([a1 EXCEPT !.pool = u.pool],
                                       Req(None, "Union", u.id)),
                      dep, "convert_atom", names, r.ids,
                      Some(Req(None, "Union", u.id)))

\* Variant of convert_atom that interns every version set under the
\* slot-less name of the atom's CPN.
convert_atom_noslot(dep, a) ==
    LET ss == extract_slot(dep)
        n == intern_name(a.pool, PackageName(dep.cpn, None))
    IN convert_atom_single(dep, [a EXCEPT !.pool = n.pool], n.id,
           atom_constraint(dep, a.use_config, ss[1], ss[2], IsSome(dep.blocker)))

convert_atom(dep, a) ==
    LET ss == extract_slot(dep)
        is_blocker == IsSome(dep.blocker)
    IN IF IsSome(ss[1])
       THEN LET n == intern_name(a.pool, PackageName(dep.cpn, ss[1]))
            IN convert_atom_single(dep, [a EXCEPT !.pool = n.pool], n.id,
                   atom_constraint(dep, a.use_config, ss[1], ss[2], is_blocker))
       ELSE IF dep.cpn \in DOMAIN a.cpn_slots
       THEN LET names == a.cpn_slots[dep.cpn]
            IN IF Len(names) = 1
               THEN convert_atom_single(dep, a, names[1],
                        atom_constraint(dep, a.use_config, None, None, is_blocker))
               ELSE convert_atom_multi(dep, a, names,
                        atom_constraint(dep, a.use_config, None, None, is_blocker))
       ELSE LET n == intern_name(a.pool, PackageName(dep.cpn, None))
            IN convert_atom_single(dep, [a EXCEPT !.pool = n.pool], n.id,
                   atom_constraint(dep, a.use_config, None, None, is_blocker))

\* Variant of mint_virtual that does not register the solvable in candidates.
mint_virtual_nocandidate(a, cpn) ==
    LET n == intern_name(a.pool, PackageName(cpn, None))
        meta == PackageMetadata(Cpv(cpn, Ver(<<1, 0>>, 0, <<>>, 0)), None, None,
                                {}, None, PackageDepsDefault)
        sv == intern_solvable(n.pool, n.id, meta)
        vs == intern_version_set(sv.pool, n.id,
                  VersionConstraint(cpn, "GreaterOrEqual", version_zero, None,
                                    None, None, <<>>, FALSE))
    IN [a |-> [a EXCEPT !.pool = vs.pool,
                        !.cpn_slots = MapPush(@, cpn, n.id)],
        sid |-> sv.id, vs |-> vs.id]

\* A virtual solvable `cpn`-1.0 under its own slot-less name, registered in
\* cpn_slots and candidates, and its `>=0` version set.
\* Returns [a, sid, vs].
mint_virtual(a, cpn) ==
    LET n == intern_name(a.pool, PackageName(cpn, None))
        meta == PackageMetadata(Cpv(cpn, Ver(<<1, 0>>, 0, <<>>, 0)), None, None,
                                {}, None, PackageDepsDefault)
        sv == intern_solvable(n.pool, n.id, meta)
        vs == intern_version_set(sv.pool, n.id,
                  VersionConstraint(cpn, "GreaterOrEqual", version_zero, None,
                                    None, None, <<>>, FALSE))
    IN [a |-> [a EXCEPT !.pool = vs.pool,
                        !.cpn_slots = MapPush(@, cpn, n.id),
                        !.candidates = MapPush(@, n.id, sv.id)],
        sid |-> sv.id, vs |-> vs.id]

\* Variant of with_condition that keeps a condition that is already set.
RECURSIVE with_condition_keep(_, _)
with_condition_keep(reqs, cond_id) ==
    IF reqs = <<>> THEN <<>>
    ELSE <<IF IsSome(Head(reqs).condition) THEN Head(reqs)
           ELSE [Head(reqs) EXCEPT !.condition = Some(cond_id)]>>
         \o with_condition_keep(Tail(reqs), cond_id)

\* for mut req in cond_reqs { req.condition = Some(cond_id); requirements.push(req) }
RECURSIVE with_condition(_, _)
with_condition(reqs, cond_id) ==
    IF reqs = <<>> THEN <<>>
    ELSE <<[Head(reqs) EXCEPT !.condition = Some(cond_id)]>>
         \o with_condition(Tail(reqs), cond_id)

\* The pairwise exclusion of convert_one_of_group: the version sets of every
\* other choice of the group.
exclusion_constrains(all_vs_ids, i) ==
    LET idx == SelectSeq([j \in 1..Len(all_vs_ids) |-> j], LAMBDA j : j # i)
    IN [k \in 1..Len(idx) |-> all_vs_ids[idx[k]]]

\* dep_map.insert(sid, KnownDependencies{child_reqs, child_constrains ++ others})
\* for every choice; choices are records [sid, vs, reqs, constrains].
RECURSIVE wire_choices(_, _, _, _)
wire_choices(dep_map, choices, all_vs_ids, i) ==
    IF i > Len(choices) THEN dep_map
    ELSE wire_choices(
             MapInsert(dep_map, choices[i].sid,
                 KnownDependencies(choices[i].reqs,
                     choices[i].constrains \o exclusion_constrains(all_vs_ids, i))),
             choices, all_vs_ids, i + 1)

\* Variant of eager_include that ignores `negate`.
eager_include_plain(cfg, flag, negate) == flag \in cfg.enabled

\* Eager evaluation of a USE conditional in convert_deps: flag_active is
\* membership in use_config.enabled, negate flips it.
eager_include(cfg, flag, negate) ==
    LET flag_active == flag \in cfg.enabled
    IN IF negate THEN ~flag_active ELSE flag_active

RECURSIVE convert_deps(_, _)
RECURSIVE convert_any_of(_, _)
RECURSIVE any_of_loop(_, _, _)
RECURSIVE convert_one_of_group(_, _, _)
RECURSIVE one_of_alternatives(_, _, _, _, _)

\* The per-alternative loop of convert_one_of_group: mint the virtual of
\* alternative i (0-based), convert the alternative into its own vectors.
\* Returns [a, choices].
one_of_alternatives(alternatives, group_id, i, a, choices) ==
    IF i >= Len(alternatives) THEN [a |-> a, choices |-> choices]
    ELSE LET cpn == "virtual/xof_" \o ToString(group_id) \o "_" \o ToString(i)
             m == mint_virtual(a, cpn)
             child == convert_deps(<<alternatives[i + 1]>>,
                          [m.a EXCEPT !.requirements = <<>>, !.constrains = <<>>])
             back == [child EXCEPT !.requirements = a.requirements,
                                   !.constrains = a.constrains]
         IN one_of_alternatives(alternatives, group_id, i + 1, back,
                Append(choices, [sid |-> m.sid, vs |-> m.vs,
                                 reqs |-> child.requirements,
                                 constrains |-> child.constrains]))

\* Variant of wire_and_push that pushes the union with the choices in
\* reverse order.
wire_and_push_reversed(r) ==
    LET all_vs_ids == [k \in 1..Len(r.choices) |-> r.choices[k].vs]
        a2 == [r.a EXCEPT !.dep_map = wire_choices(@, r.choices, all_vs_ids, 1)]
    IN IF Len(all_vs_ids) = 1
       THEN push_requirement(a2, Req(None, "Single", all_vs_ids[1]))
       ELSE push_union(a2, [k \in 1..Len(all_vs_ids) |->
                               all_vs_ids[Len(all_vs_ids) + 1 - k]])

\* The tail of convert_one_of_group: wire the pairwise exclusion into dep_map
\* and push the union of the choices to the parent. r is [a, choices].
wire_and_push(r) ==
    LET all_vs_ids == [k \in 1..Len(r.choices) |-> r.choices[k].vs]
        a2 == [r.a EXCEPT !.dep_map = wire_choices(@, r.choices, all_vs_ids, 1)]
    IN IF Len(all_vs_ids) = 1
       THEN push_requirement(a2, Req(None, "Single", all_vs_ids[1]))
       ELSE push_union(a2, all_vs_ids)

convert_one_of_group(alternatives, allow_none, a) ==
    LET group_id == a.xof_counter
        a0 == [a EXCEPT !.xof_counter = @ + 1]
        none == mint_virtual(a0, "virtual/xof_" \o ToString(group_id) \o "_none")
    IN wire_and_push(
           one_of_alternatives(alternatives, group_id, 0,
               IF allow_none THEN none.a ELSE a0,
               IF allow_none
               THEN <<[sid |-> none.sid, vs |-> none.vs, reqs |-> <<>>,
                       constrains |-> <<>>]>>
               ELSE <<>>))

\* The non-blocker Atom arm of convert_any_of: the version sets the atom adds
\* to the group's union. Returns [a, ids].
any_of_atom(dep, a) ==
    LET ss == extract_slot(dep)
    IN IF IsSome(ss[1])
       THEN LET n == intern_name(a.pool, PackageName(dep.cpn, ss[1]))
                r == intern_version_set(n.pool, n.id,
                         atom_constraint(dep, a.use_config, ss[1], ss[2], FALSE))
            IN [a |-> Origin([a EXCEPT !.pool = r.pool], dep, "convert_any_of",
                             <<n.id>>, <<r.id>>, None),
                ids |-> <<r.id>>]
       ELSE IF dep.cpn \in DOMAIN a.cpn_slots
       THEN LET names == a.cpn_slots[dep.cpn]
                r == intern_each(a.pool, names,
                         atom_constraint(dep, a.use_config, None, None, FALSE))
            IN [a |-> Origin([a EXCEPT !.pool = r.pool], dep, "convert_any_of",
                             names, r.ids, None),
                ids |-> r.ids]
       ELSE LET n == intern_name(a.pool, PackageName(dep.cpn, None))
                r == intern_version_set(n.pool, n.id,
                         atom_constraint(dep, a.use_config, None, None, FALSE))
            IN [a |-> Origin([a EXCEPT !.pool = r.pool], dep, "convert_any_of",
                             <<n.id>>, <<r.id>>, None),
                ids |-> <<r.id>>]

\* The `for alt in alternatives` loop of convert_any_of. Returns [a, vs_ids].
any_of_loop(alternatives, a, vs_ids) ==
    IF alternatives = <<>> THEN [a |-> a, vs_ids |-> vs_ids]
    ELSE
    LET alt == Head(alternatives)
        rest == Tail(alternatives)
    IN CASE alt.t = "Atom" ->
              IF IsSome(alt.dep.blocker)
              THEN LET b == convert_atom(alt.dep, [a EXCEPT !.requirements = <<>>])
                   IN any_of_loop(rest, [b EXCEPT !.requirements = a.requirements],
                                  vs_ids)
              ELSE LET r == any_of_atom(alt.dep, a)
                   IN any_of_loop(rest, r.a, vs_ids \o r.ids)
         [] alt.t = "UseConditional" ->
              IF alt.flag \in DOMAIN a.flag_virtuals
              THEN LET fv == a.flag_virtuals[alt.flag]
                       cond_id == IF alt.negate THEN fv.off_condition
                                  ELSE fv.on_condition
                       c == convert_any_of(alt.children,
                                [a EXCEPT !.encountered_flags = @ \cup {alt.flag},
                                          !.requirements = <<>>])
                   IN any_of_loop(rest,
                          [c EXCEPT !.requirements =
                               a.requirements \o with_condition(c.requirements, cond_id)],
                          vs_ids)
              ELSE LET flag_active == alt.flag \in a.use_config.enabled
                       include == IF alt.negate THEN ~flag_active ELSE flag_active
                   IN IF include
                      THEN any_of_loop(rest, convert_any_of(alt.children, a), vs_ids)
                      ELSE any_of_loop(rest, a, vs_ids)
         [] alt.t = "AnyOf" ->
              any_of_loop(rest, convert_any_of(alt.children, a), vs_ids)
         [] alt.t = "ExactlyOneOf" ->
              any_of_loop(rest, convert_one_of_group(alt.children, FALSE, a), vs_ids)
         [] alt.t = "AtMostOneOf" ->
              any_of_loop(rest, convert_one_of_group(alt.children, TRUE, a), vs_ids)

\* The tail of convert_any_of: push the collected version sets as one
\* requirement. r is [a, vs_ids].
push_any_of(r) ==
    IF Len(r.vs_ids) = 1
    THEN push_requirement(r.a, Req(None, "Single", r.vs_ids[1]))
    ELSE IF Len(r.vs_ids) > 1
    THEN push_union(r.a, r.vs_ids)
    ELSE r.a

convert_any_of(alternatives, a) ==
    push_any_of(any_of_loop(alternatives, a, <<>>))

convert_deps(entries, a) ==
    IF entries = <<>> THEN a
    ELSE
    LET entry == Head(entries)
        rest == Tail(entries)
    IN CASE entry.t = "Atom" ->
              convert_deps(rest, convert_atom(entry.dep, a))
         [] entry.t = "UseConditional" ->
              IF entry.flag \in DOMAIN a.flag_virtuals
              THEN LET fv == a.flag_virtuals[entry.flag]
                       cond_id == IF entry.negate THEN fv.off_condition
                                  ELSE fv.on_condition
                       c == convert_deps(entry.children,
                                [a EXCEPT !.encountered_flags = @ \cup {entry.flag},
                                          !.requirements = <<>>])
                   IN convert_deps(rest,
                          [c EXCEPT !.requirements =
                               a.requirements \o with_condition(c.requirements, cond_id)])
              ELSE IF eager_include(a.use_config, entry.flag, entry.negate)
                   THEN convert_deps(rest, convert_deps(entry.children, a))
                   ELSE convert_deps(rest, a)
         [] entry.t = "AnyOf" ->
              convert_deps(rest, convert_any_of(entry.children, a))
         [] entry.t = "ExactlyOneOf" ->
              convert_deps(rest, convert_one_of_group(entry.children, FALSE, a))
         [] entry.t = "AtMostOneOf" ->
              convert_deps(rest, convert_one_of_group(entry.children, TRUE, a))

\* ------------------------------------------------------------------------
\* History of what the pool handed out (not program state)
\* ------------------------------------------------------------------------
IssuedNone ==
    [names |-> <<>>, solvables |-> <<>>, version_sets |-> <<>>,
     unions |-> <<>>, conditions |-> <<>>, strings |-> <<>>]

\* Record (id, value) on an axis when the call allocated a fresh id.
Issue(log, axis, before, after, id, value) ==
    IF after > before
    THEN [log EXCEPT ![axis] = Append(@, [id |-> id, value |-> value])]
    ELSE log

\* ------------------------------------------------------------------------
\* Specification SpecPool: a caller driving the pool API directly
\* ------------------------------------------------------------------------
MaxPoolOps == 5

PoolNames ==
    {PackageName("dev-lang/python", Some("3.11")),
     PackageName("dev-lang/python", Some("3.12"))}

PoolMetas ==
    {PackageMetadata(Cpv("dev-lang/python", Ver(<<3, 11, 9>>, 0, <<>>, 0)),
                     Some("3.11"), None, {}, None, PackageDepsDefault)}

PoolConstraints ==
    {VersionConstraint("dev-lang/python", "GreaterOrEqual", Ver(<<0>>, 0, <<>>, 0),
                       None, None, None, <<>>, FALSE),
     VersionConstraint("dev-lang/python", "GreaterOrEqual", Ver(<<0>>, 0, <<>>, 0),
                       None, None, None, <<>>, TRUE),
     VersionConstraint("dev-lang/python", "Equal", Ver(<<3, 12, 4>>, 0, <<>>, 0),
                       Some("3.12"), None, None, <<>>, FALSE)}

PoolStrings == {"hello"}

NameIds(p) == 0..(Len(p.names) - 1)
SolvableIds(p) == 0..(Len(p.solvables) - 1)
VersionSetIds(p) == 0..(Len(p.version_sets) - 1)
UnionIds(p) == 0..(Len(p.version_set_unions) - 1)
ConditionIds(p) == 0..(Len(p.conditions) - 1)

InitPool ==
    /\ pc = "pool"
    /\ pool = PoolNew
    /\ issued = IssuedNone
    /\ vs_calls = <<>>
    /\ steps = 0
    /\ repo = EmptyMap /\ use_config = UseConfig({}, {}, {})
    /\ installed = <<>> /\ root_atoms = {}
    /\ todo = {} /\ flags_todo = {} /\ solvable_meta = <<>>
    /\ found_installed = {} /\ xof_counter = 0
    /\ candidates = EmptyMap /\ dependencies = EmptyMap /\ cpn_slots = EmptyMap
    /\ blocker_types = EmptyMap /\ rebuild_triggers = {}
    /\ flag_virtuals = EmptyMap /\ favored = EmptyMap /\ locked = EmptyMap
    /\ origins = {} /\ roots = <<>> /\ solution = None /\ order_runs = <<>>
    /\ sort_runs = <<>> /\ match_run = None

PoolInternName ==
    /\ pc = "pool" /\ steps < MaxPoolOps
    /\ \E name \in PoolNames :
         LET r == intern_name(pool, name)
         IN /\ pool' = r.pool
            /\ issued' = Issue(issued, "names", Len(pool.names),
                               Len(r.pool.names), r.id, name)
    /\ steps' = steps + 1
    /\ UNCHANGED <<pc, vs_calls, providerVars>>

PoolInternSolvable ==
    /\ pc = "pool" /\ steps < MaxPoolOps
    /\ \E name_id \in NameIds(pool), meta \in PoolMetas :
         LET r == intern_solvable(pool, name_id, meta)
         IN /\ pool' = r.pool
            /\ issued' = Issue(issued, "solvables", Len(pool.solvables),
                               Len(r.pool.solvables), r.id,
                               [meta |-> meta, name |-> name_id])
    /\ steps' = steps + 1
    /\ UNCHANGED <<pc, vs_calls, providerVars>>

PoolInternVersionSet ==
    /\ pc = "pool" /\ steps < MaxPoolOps
    /\ \E name_id \in NameIds(pool), c \in PoolConstraints :
         LET r == intern_version_set(pool, name_id, c)
         IN /\ pool' = r.pool
            /\ issued' = Issue(issued, "version_sets", Len(pool.version_sets),
                               Len(r.pool.version_sets), r.id,
                               [constraint |-> c, name |-> name_id])
            /\ vs_calls' = Append(vs_calls,
                   [constraint |-> c, name |-> name_id, id |-> r.id,
                    before |-> Len(pool.version_sets),
                    after |-> Len(r.pool.version_sets)])
    /\ steps' = steps + 1
    /\ UNCHANGED <<pc, providerVars>>

PoolInternUnion ==
    /\ pc = "pool" /\ steps < MaxPoolOps
    /\ \E a \in VersionSetIds(pool), b \in VersionSetIds(pool) :
         /\ a <= b
         /\ LET sets == IF a = b THEN <<a>> ELSE <<a, b>>
                r == intern_version_set_union(pool, sets)
            IN /\ pool' = r.pool
               /\ issued' = Issue(issued, "unions", Len(pool.version_set_unions),
                                  Len(r.pool.version_set_unions), r.id, sets)
    /\ steps' = steps + 1
    /\ UNCHANGED <<pc, vs_calls, providerVars>>

PoolInternCondition ==
    /\ pc = "pool" /\ steps < MaxPoolOps
    /\ \E vs \in VersionSetIds(pool) :
         LET r == intern_condition(pool, vs)
         IN /\ pool' = r.pool
            /\ issued' = Issue(issued, "conditions", Len(pool.conditions),
                               Len(r.pool.conditions), r.id, vs)
    /\ steps' = steps + 1
    /\ UNCHANGED <<pc, vs_calls, providerVars>>

PoolInternString ==
    /\ pc = "pool" /\ steps < MaxPoolOps
    /\ \E s \in PoolStrings :
         LET r == intern_string(pool, s)
         IN /\ pool' = r.pool
            /\ issued' = Issue(issued, "strings", Len(pool.strings),
                               Len(r.pool.strings), r.id, s)
    /\ steps' = steps + 1
    /\ UNCHANGED <<pc, vs_calls, providerVars>>

NextPool ==
    \/ PoolInternName
    \/ PoolInternSolvable
    \/ PoolInternVersionSet
    \/ PoolInternUnion
    \/ PoolInternCondition
    \/ PoolInternString

SpecPool == InitPool /\ [][NextPool]_vars

\* ------------------------------------------------------------------------
\* provider.rs : PortageDependencyProvider::with_installed
\* ------------------------------------------------------------------------
\* installed_index: later entries of the same CPV overwrite earlier ones.
installed_index(inst) ==
    [cpv \in {inst[k].meta.cpv : k \in 1..Len(inst)} |->
        inst[CHOOSE k \in 1..Len(inst) :
                 /\ inst[k].meta.cpv = cpv
                 /\ \A j \in (k + 1)..Len(inst) : inst[j].meta.cpv # cpv].policy]

\* The registration both loops perform for one PackageMetadata: intern the
\* name, track it under its CPN, intern the solvable, push it to candidates
\* and to solvable_meta. st holds the tables being built.
register_solvable(st, meta) ==
    LET n == intern_name(st.pool, PackageName(meta.cpv.cpn, meta.slot))
        sv == intern_solvable(n.pool, n.id, meta)
        slot_list == IF meta.cpv.cpn \in DOMAIN st.cpn_slots
                     THEN st.cpn_slots[meta.cpv.cpn] ELSE <<>>
    IN [st EXCEPT !.pool = sv.pool,
                  !.cpn_slots = MapInsert(@, meta.cpv.cpn,
                                    IF Contains(slot_list, n.id) THEN slot_list
                                    ELSE Append(slot_list, n.id)),
                  !.candidates = MapPush(@, n.id, sv.id),
                  !.solvable_meta = Append(@, [sid |-> sv.id,
                                               deps |-> meta.dependencies]),
                  !.name_id = n.id, !.sid = sv.id]

\* Variant of apply_policy with the two maps exchanged.
apply_policy_swapped(st, policy) ==
    IF policy = "Favored"
    THEN [st EXCEPT !.locked = MapInsert(@, st.name_id, st.sid)]
    ELSE [st EXCEPT !.favored = MapInsert(@, st.name_id, st.sid)]

\* match policy { Favored => favored.insert(..), Locked => locked.insert(..) }
apply_policy(st, policy) ==
    IF policy = "Favored"
    THEN [st EXCEPT !.favored = MapInsert(@, st.name_id, st.sid)]
    ELSE [st EXCEPT !.locked = MapInsert(@, st.name_id, st.sid)]

\* for meta in repo.versions_for(&cpn) { ... }
RECURSIVE phase1_versions(_, _, _)
phase1_versions(st, metas, index) ==
    IF metas = <<>> THEN st
    ELSE LET meta == Head(metas)
             r == register_solvable(st, meta)
             r2 == IF meta.cpv \in DOMAIN index
                   THEN apply_policy([r EXCEPT !.found_installed = @ \cup {meta.cpv}],
                                     index[meta.cpv])
                   ELSE r
         IN phase1_versions(r2, Tail(metas), index)

\* Variant of inject_installed without the found_installed test.
RECURSIVE inject_installed_noskip(_, _)
inject_installed_noskip(st, inst) ==
    IF inst = <<>> THEN st
    ELSE inject_installed_noskip(
             apply_policy(register_solvable(st, Head(inst).meta), Head(inst).policy),
             Tail(inst))

\* for (meta, policy) in &installed.packages { if found { continue } ... }
RECURSIVE inject_installed(_, _)
inject_installed(st, inst) ==
    IF inst = <<>> THEN st
    ELSE LET meta == Head(inst).meta
         IN IF meta.cpv \in st.found_installed
            THEN inject_installed(st, Tail(inst))
            ELSE inject_installed(
                     apply_policy(register_solvable(st, meta), Head(inst).policy),
                     Tail(inst))

BuildState ==
    [pool |-> pool, cpn_slots |-> cpn_slots, candidates |-> candidates,
     solvable_meta |-> solvable_meta, found_installed |-> found_installed,
     favored |-> favored, locked |-> locked, name_id |-> 0, sid |-> 0]

\* One iteration of `for cpn in repo.all_packages()`; the HashMap hands the
\* CPNs out in an unspecified order.
Phase1Repo ==
    /\ pc = "phase1" /\ todo # {}
    /\ \E cpn \in todo :
         LET st == phase1_versions(BuildState, repo[cpn], installed_index(installed))
         IN /\ pool' = st.pool
            /\ cpn_slots' = st.cpn_slots
            /\ candidates' = st.candidates
            /\ solvable_meta' = st.solvable_meta
            /\ found_installed' = st.found_installed
            /\ favored' = st.favored
            /\ locked' = st.locked
            /\ todo' = todo \ {cpn}
    /\ UNCHANGED <<pc, poolHistory, inputVars, flags_todo, xof_counter, dependencies,
                   blocker_types, rebuild_triggers, flag_virtuals, callerVars,
                   queryVars>>

\* The loop injecting installed packages the repository does not have.
InjectInstalled ==
    /\ pc = "phase1" /\ todo = {}
    /\ LET st == inject_installed(BuildState, installed)
       IN /\ pool' = st.pool
          /\ cpn_slots' = st.cpn_slots
          /\ candidates' = st.candidates
          /\ solvable_meta' = st.solvable_meta
          /\ favored' = st.favored
          /\ locked' = st.locked
    /\ pc' = IF flags_todo = {} THEN "phase2" ELSE "flags"
    /\ UNCHANGED <<poolHistory, inputVars, todo, flags_todo, found_installed,
                   xof_counter, dependencies, blocker_types, rebuild_triggers,
                   flag_virtuals, callerVars, queryVars>>

FlagVirtuals(on_condition, off_condition, choice_union) ==
    [on_condition |-> on_condition, off_condition |-> off_condition,
     choice_union |-> choice_union]

\* The reciprocal constrains of the two virtuals of one flag.
flag_exclusion(dep_map, on_sid, on_vs, off_sid, off_vs) ==
    MapInsert(MapInsert(dep_map, on_sid, KnownDependencies(<<>>, <<off_vs>>)),
              off_sid, KnownDependencies(<<>>, <<on_vs>>))

\* The conversion state handed to convert_deps.
Ctx(owner) ==
    [pool |-> pool, cpn_slots |-> cpn_slots, blocker_types |-> blocker_types,
     rebuild_triggers |-> rebuild_triggers, flag_virtuals |-> flag_virtuals,
     use_config |-> use_config, encountered_flags |-> {},
     candidates |-> candidates, dep_map |-> dependencies,
     xof_counter |-> xof_counter, origins |-> origins, owner |-> owner,
     requirements |-> <<>>, constrains |-> <<>>]

\* One iteration of `for flag in &use_config.solver_decided` (a HashSet).
Phase15Flag ==
    /\ pc = "flags"
    /\ \E flag \in flags_todo :
         LET on == mint_virtual(Ctx(None), "virtual/USE_" \o flag)
             on_cond == intern_condition(on.a.pool, on.vs)
             off == mint_virtual([on.a EXCEPT !.pool = on_cond.pool],
                                 "virtual/NotUSE_" \o flag)
             off_cond == intern_condition(off.a.pool, off.vs)
             choice == intern_version_set_union(off_cond.pool, <<off.vs, on.vs>>)
         IN /\ pool' = choice.pool
            /\ cpn_slots' = off.a.cpn_slots
            /\ candidates' = off.a.candidates
            /\ dependencies' = flag_exclusion(dependencies, on.sid, on.vs,
                                              off.sid, off.vs)
            /\ flag_virtuals' = MapInsert(flag_virtuals, flag,
                                     FlagVirtuals(on_cond.id, off_cond.id, choice.id))
            /\ flags_todo' = flags_todo \ {flag}
            /\ pc' = IF flags_todo \ {flag} = {} THEN "phase2" ELSE "flags"
    /\ UNCHANGED <<poolHistory, inputVars, todo, solvable_meta, found_installed,
                   xof_counter, blocker_types, rebuild_triggers, favored, locked,
                   callerVars, queryVars>>

\* for (_class, entries) in pkg_deps.iter_classes() { convert_deps(..) }
RECURSIVE convert_classes(_, _)
convert_classes(classes, a) ==
    IF classes = <<>> THEN a
    ELSE convert_classes(Tail(classes), convert_deps(Head(classes)[2], a))

\* Variant of inject_choices that injects nothing.
inject_choices_none(requirements, order, fvs) == requirements

\* for flag in &ctx.encountered_flags { requirements.push(Union(choice_union)) }
\* in the iteration order `order` of the HashSet.
RECURSIVE inject_choices(_, _, _)
inject_choices(requirements, order, fvs) ==
    IF order = <<>> THEN requirements
    ELSE inject_choices(
             IF Head(order) \in DOMAIN fvs
             THEN Append(requirements,
                         Req(None, "Union", fvs[Head(order)].choice_union))
             ELSE requirements,
             Tail(order), fvs)

\* The iteration orders a HashSet of flags can produce.
Orders(flags) ==
    {o \in [1..Cardinality(flags) -> flags] :
        \A i, j \in 1..Cardinality(flags) : i # j => o[i] # o[j]}

\* One iteration of `for (sid, pkg_deps) in solvable_meta`.
Phase2Convert ==
    /\ pc = "phase2" /\ solvable_meta # <<>>
    /\ \E a \in {convert_classes(iter_classes(Head(solvable_meta).deps),
                                  Ctx(Some(Head(solvable_meta).sid)))} :
         \E order \in Orders(a.encountered_flags) :
            /\ pool' = a.pool
            /\ cpn_slots' = a.cpn_slots
            /\ candidates' = a.candidates
            /\ blocker_types' = a.blocker_types
            /\ rebuild_triggers' = a.rebuild_triggers
            /\ xof_counter' = a.xof_counter
            /\ origins' = a.origins
            /\ dependencies' = MapInsert(a.dep_map, Head(solvable_meta).sid,
                   KnownDependencies(
                       inject_choices(a.requirements, order, flag_virtuals),
                       a.constrains))
    /\ solvable_meta' = Tail(solvable_meta)
    /\ pc' = IF Tail(solvable_meta) = <<>> THEN "ready" ELSE "phase2"
    /\ UNCHANGED <<poolHistory, inputVars, todo, flags_todo, found_installed,
                   flag_virtuals, favored, locked, roots, solution, order_runs,
                   queryVars>>

\* ------------------------------------------------------------------------
\* provider.rs : intern_requirement and the DependencyProvider queries
\* ------------------------------------------------------------------------
\* Variant of intern_requirement that also binds the pool's first version
\* set to the first name of the requirement.
intern_requirement_rebind(p, slots, cfg, dep) ==
    LET base ==
            LET ss == extract_slot(dep)
            IN IF IsSome(ss[1])
               THEN LET n == intern_name(p, PackageName(dep.cpn, ss[1]))
                        r == intern_version_set(n.pool, n.id,
                                 atom_constraint(dep, cfg, ss[1], ss[2], FALSE))
                    IN [pool |-> r.pool, req |-> Req(None, "Single", r.id),
                        name_ids |-> <<n.id>>, vs_ids |-> <<r.id>>]
               ELSE IF dep.cpn \in DOMAIN slots
               THEN LET names == slots[dep.cpn]
                    IN IF Len(names) = 1
                       THEN LET r == intern_version_set(p, names[1],
                                         atom_constraint(dep, cfg, None, None, FALSE))
                            IN [pool |-> r.pool, req |-> Req(None, "Single", r.id),
                                name_ids |-> names, vs_ids |-> <<r.id>>]
                       ELSE LET r == intern_each(p, names,
                                         atom_constraint(dep, cfg, None, None, FALSE))
                                u == intern_version_set_union(r.pool, r.ids)
                            IN [pool |-> u.pool, req |-> Req(None, "Union", u.id),
                                name_ids |-> names, vs_ids |-> r.ids]
               ELSE LET n == intern_name(p, PackageName(dep.cpn, None))
                        r == intern_version_set(n.pool, n.id,
                                 atom_constraint(dep, cfg, None, None, FALSE))
                    IN [pool |-> r.pool, req |-> Req(None, "Single", r.id),
                        name_ids |-> <<n.id>>, vs_ids |-> <<r.id>>]
    IN [base EXCEPT !.pool.version_set_names[1] = base.name_ids[1]]

\* Returns [pool, req, name_ids, vs_ids].
intern_requirement(p, slots, cfg, dep) ==
    LET ss == extract_slot(dep)
    IN IF IsSome(ss[1])
       THEN LET n == intern_name(p, PackageName(dep.cpn, ss[1]))
                r == intern_version_set(n.pool, n.id,
                         atom_constraint(dep, cfg, ss[1], ss[2], FALSE))
            IN [pool |-> r.pool, req |-> Req(None, "Single", r.id),
                name_ids |-> <<n.id>>, vs_ids |-> <<r.id>>]
       ELSE IF dep.cpn \in DOMAIN slots
       THEN LET names == slots[dep.cpn]
            IN IF Len(names) = 1
               THEN LET r == intern_version_set(p, names[1],
                                 atom_constraint(dep, cfg, None, None, FALSE))
                    IN [pool |-> r.pool, req |-> Req(None, "Single", r.id),
                        name_ids |-> names, vs_ids |-> <<r.id>>]
               ELSE LET r == intern_each(p, names,
                                 atom_constraint(dep, cfg, None, None, FALSE))
                        u == intern_version_set_union(r.pool, r.ids)
                    IN [pool |-> u.pool, req |-> Req(None, "Union", u.id),
                        name_ids |-> names, vs_ids |-> r.ids]
       ELSE LET n == intern_name(p, PackageName(dep.cpn, None))
                r == intern_version_set(n.pool, n.id,
                         atom_constraint(dep, cfg, None, None, FALSE))
            IN [pool |-> r.pool, req |-> Req(None, "Single", r.id),
                name_ids |-> <<n.id>>, vs_ids |-> <<r.id>>]

blocker_type(vs_id) == MapGet(blocker_types, vs_id)

is_rebuild_trigger(vs_id) == vs_id \in rebuild_triggers

flag_condition(flag) ==
    IF flag \in DOMAIN flag_virtuals
    THEN Some(flag_virtuals[flag].on_condition) ELSE None

flag_off_condition(flag) ==
    IF flag \in DOMAIN flag_virtuals
    THEN Some(flag_virtuals[flag].off_condition) ELSE None

get_candidates(name) ==
    IF name \in DOMAIN candidates
    THEN Some([candidates |-> candidates[name],
               favored |-> MapGet(favored, name),
               locked |-> MapGet(locked, name)])
    ELSE None

get_dependencies(solvable) ==
    IF solvable \in DOMAIN dependencies
    THEN dependencies[solvable]
    ELSE KnownDependencies(<<>>, <<>>)

\* ------------------------------------------------------------------------
\* resolvo::Solver, as far as it reads the provider: the assignments it may
\* return are those that satisfy the compiled constraints
\* ------------------------------------------------------------------------
CandidatesOf(name) ==
    IF IsSome(get_candidates(name))
    THEN Unwrap(get_candidates(name)).candidates ELSE <<>>

\* Some selected solvable is a candidate of the version set's name that
\* filter_candidates(.., inverse = false) keeps.
Selected(S, vs) ==
    \E t \in S :
        Contains(filter_candidates(pool, CandidatesOf(version_set_name(pool, vs)),
                                   vs, FALSE), t)

\* Some selected solvable is among what filter_candidates(.., inverse = true)
\* returns for a constrains entry.
Forbidden(S, vs) ==
    \E t \in S :
        Contains(filter_candidates(pool, CandidatesOf(version_set_name(pool, vs)),
                                   vs, TRUE), t)

RequirementMet(S, req) ==
    IF req.kind = "Single" THEN Selected(S, req.id)
    ELSE \E vs \in SeqToSet(resolve_version_set_union(pool, req.id)) :
            Selected(S, vs)

ConditionHolds(S, condition) ==
    \/ condition = None
    \/ Selected(S, resolve_condition(pool, Unwrap(condition)))

Valid(S) ==
    /\ \A s \in S, t \in S :
          solvable_name(pool, s) = solvable_name(pool, t) => s = t
    /\ \A t \in S :
          LET c == Unwrap(get_candidates(solvable_name(pool, t)))
          IN IsSome(c.locked) => t = Unwrap(c.locked)
    /\ \A i \in 1..Len(roots) : RequirementMet(S, roots[i])
    /\ \A s \in S :
          LET deps == get_dependencies(s)
          IN /\ \A i \in 1..Len(deps.requirements) :
                   ConditionHolds(S, deps.requirements[i].condition)
                      => RequirementMet(S, deps.requirements[i])
             /\ \A i \in 1..Len(deps.constrains) :
                   ~Forbidden(S, deps.constrains[i])

\* ------------------------------------------------------------------------
\* The caller: build the Problem, then solve
\* ------------------------------------------------------------------------
MaxRoots == 1

InternRequirement ==
    /\ pc = "ready" /\ Len(roots) < MaxRoots
    /\ \E dep \in root_atoms :
         LET r == intern_requirement(pool, cpn_slots, use_config, dep)
         IN /\ pool' = r.pool
            /\ roots' = Append(roots, r.req)
            /\ origins' = origins \cup
                   {[dep |-> dep, site |-> "intern_requirement", owner |-> None,
                     name_ids |-> r.name_ids, vs_ids |-> r.vs_ids,
                     req |-> Some(r.req)]}
    /\ UNCHANGED <<pc, poolHistory, inputVars, buildVars, tableVars, solution,
                   order_runs, queryVars>>

Solve ==
    /\ pc = "ready" /\ roots # <<>>
    /\ \E S \in SUBSET SolvableIds(pool) :
         /\ Valid(S)
         /\ solution' = Some(S)
    /\ pc' = "solved"
    /\ UNCHANGED <<pool, poolHistory, inputVars, buildVars, tableVars, origins, roots,
                   order_runs, queryVars>>

SolveUnsat ==
    /\ pc = "ready" /\ roots # <<>>
    /\ \A S \in SUBSET SolvableIds(pool) : ~Valid(S)
    /\ pc' = "unsat"
    /\ UNCHANGED <<pool, poolHistory, inputVars, buildVars, tableVars, callerVars,
                   queryVars>>

\* ------------------------------------------------------------------------
\* provider.rs : dependency_graph and install_order
\* ------------------------------------------------------------------------
DepEdge(from, to, class) == [from |-> from, to |-> to, class |-> class]

\* The `for &to in solution` loop of the Atom arm of collect_dep_edges.
atom_edges(from, class, dep, sol) ==
    LET hits == SelectSeq(sol,
                    LAMBDA to : /\ to # from
                                /\ dep_matches_solvable(dep, resolve_solvable(pool, to),
                                                        use_config))
    IN [k \in 1..Len(hits) |-> DepEdge(from, hits[k], class)]

\* The flag_active / include computation of collect_dep_edges.
graph_include(flag, negate) ==
    LET flag_active == \/ flag \in use_config.enabled
                       \/ flag \in use_config.solver_decided
    IN IF negate THEN ~flag_active ELSE flag_active

\* The edges collect_dep_edges appends for `entries`, in order.
RECURSIVE collect_dep_edges(_, _, _, _)
collect_dep_edges(from, class, entries, sol) ==
    IF entries = <<>> THEN <<>>
    ELSE (CASE Head(entries).t = "Atom" ->
                 IF IsSome(Head(entries).dep.blocker) THEN <<>>
                 ELSE atom_edges(from, class, Head(entries).dep, sol)
            [] Head(entries).t = "UseConditional" ->
                 IF graph_include(Head(entries).flag, Head(entries).negate)
                 THEN collect_dep_edges(from, class, Head(entries).children, sol)
                 ELSE <<>>
            [] OTHER ->
                 collect_dep_edges(from, class, Head(entries).children, sol))
         \o collect_dep_edges(from, class, Tail(entries), sol)

\* for (class, entries) in meta.dependencies.iter_classes() { ... }
RECURSIVE class_edges(_, _, _)
class_edges(from, classes, sol) ==
    IF classes = <<>> THEN <<>>
    ELSE collect_dep_edges(from, Head(classes)[1], Head(classes)[2], sol)
         \o class_edges(from, Tail(classes), sol)

\* for &from in solution { ... }, over the members `rest` still to visit.
RECURSIVE graph_from(_, _)
graph_from(rest, sol) ==
    IF rest = <<>> THEN <<>>
    ELSE class_edges(Head(rest),
                     iter_classes(resolve_solvable(pool, Head(rest)).dependencies),
                     sol)
         \o graph_from(Tail(rest), sol)

dependency_graph(sol) == graph_from(sol, sol)

\* String order of the CPNs that occur (Cpn::cmp: category, then package).
CpnOrder ==
    <<"app-misc/foo", "app-misc/qux", "dev-lang/python", "dev-lib/bar",
      "dev-lib/baz", "dev-lib/missing", "virtual/NotUSE_debug",
      "virtual/NotUSE_ssl", "virtual/USE_debug", "virtual/USE_ssl",
      "virtual/xof_0_0", "virtual/xof_0_1", "virtual/xof_0_none">>
CpnRank(c) == CHOOSE i \in 1..Len(CpnOrder) : CpnOrder[i] = c

\* Cpv::cmp : CPN, then version.
CpvCmp(a, b) ==
    IF a.cpn # b.cpn THEN CmpNat(CpnRank(a.cpn), CpnRank(b.cpn))
    ELSE VersionCmp(a.version, b.version)

\* sort_by(|a, b| ma.cpv.cmp(&mb.cpv)): a stable sort, equal CPVs keep their
\* relative order.
RECURSIVE cpv_insert(_, _)
cpv_insert(sorted, x) ==
    IF sorted = <<>> THEN <<x>>
    ELSE IF CpvCmp(resolve_solvable(pool, x).cpv,
                   resolve_solvable(pool, Head(sorted)).cpv) < 0
         THEN <<x>> \o sorted
         ELSE <<Head(sorted)>> \o cpv_insert(Tail(sorted), x)

RECURSIVE sort_by_cpv(_)
sort_by_cpv(s) ==
    IF s = <<>> THEN <<>>
    ELSE cpv_insert(sort_by_cpv(SubSeq(s, 1, Len(s) - 1)), s[Len(s)])

\* The edges install_order keeps: `if edge.class == Pdepend { continue }`.
\* Variant that keeps every edge.
hard_edges_all(all_edges) == all_edges

hard_edges(all_edges) == SelectSeq(all_edges, LAMBDA e : e.class # "Pdepend")

\* Variant of install_graph with the edge direction not reversed.
install_graph_forward(edges, sol) ==
    [adj |-> [n \in SeqToSet(sol) |->
                 LET es == SelectSeq(edges, LAMBDA e : e.from = n)
                 IN [k \in 1..Len(es) |-> es[k].to]],
     in_degree |-> [n \in SeqToSet(sol) |->
                       Len(SelectSeq(edges, LAMBDA e : e.to = n))]]

\* adj and in_degree after the two initialisation loops: adj[to] lists the
\* `from` of every kept edge into `to`, in_degree[from] counts them.
install_graph(edges, sol) ==
    [adj |-> [n \in SeqToSet(sol) |->
                 LET es == SelectSeq(edges, LAMBDA e : e.to = n)
                 IN [k \in 1..Len(es) |-> es[k].from]],
     in_degree |-> [n \in SeqToSet(sol) |->
                       Len(SelectSeq(edges, LAMBDA e : e.from = n))]]

\* for &dep in dependents { *deg -= 1; if *deg == 0 { next.push(dep) } }
\* Returns [in_degree, next].
RECURSIVE release(_, _, _)
release(dependents, in_degree, next) ==
    IF dependents = <<>> THEN [in_degree |-> in_degree, next |-> next]
    ELSE release(Tail(dependents),
                 [in_degree EXCEPT ![Head(dependents)] = @ - 1],
                 IF in_degree[Head(dependents)] - 1 = 0
                 THEN Append(next, Head(dependents)) ELSE next)

\* while let Some(node) = queue.pop_front() { ... }
RECURSIVE kahn(_, _, _, _)
RECURSIVE kahn_extend(_, _, _, _)
kahn(queue, order, in_degree, adj) ==
    IF queue = <<>> THEN order
    ELSE kahn_extend(Tail(queue), Append(order, Head(queue)),
                     release(adj[Head(queue)], in_degree, <<>>), adj)

\* next.sort_by(cpv); queue.extend(next). r is the result of release.
kahn_extend(queue, order, r, adj) ==
    kahn(queue \o sort_by_cpv(r.next), order, r.in_degree, adj)

\* The order Kahn's algorithm produces when in_degree.iter() yields its keys
\* in the order hash_order.
kahn_order(g, hash_order) ==
    kahn(sort_by_cpv(SelectSeq(hash_order, LAMBDA n : g.in_degree[n] = 0)),
         <<>>, g.in_degree, g.adj)

\* Ok(order) or Err(cycle_members).
order_result(sol, order) ==
    IF Len(order) = Len(sol)
    THEN [ok |-> TRUE, list |-> order]
    ELSE [ok |-> FALSE, list |-> SelectSeq(sol, LAMBDA s : ~Contains(order, s))]

\* install_order, given the edges of dependency_graph(sol).
install_order(sol, all_edges, hash_order) ==
    order_result(sol, kahn_order(install_graph(hard_edges(all_edges), sol),
                                 hash_order))

\* The solution slice handed to install_order: the selected solvables in
\* ascending or in descending id order.
RECURSIVE Ascending(_)
Ascending(S) ==
    IF S = {} THEN <<>>
    ELSE LET m == CHOOSE x \in S : \A y \in S : x <= y
         IN <<m>> \o Ascending(S \ {m})

Reverse(s) == [k \in 1..Len(s) |-> s[Len(s) + 1 - k]]

Slices(S) == {Ascending(S), Reverse(Ascending(S))}

MaxRuns == 2

\* solver.provider().install_order(&solution): every call after the first is
\* made on the same slice; each call builds fresh hash maps.
InstallOrder ==
    /\ pc = "solved" /\ Len(order_runs) < MaxRuns
    /\ \E sol \in (IF order_runs = <<>> THEN Slices(Unwrap(solution))
                   ELSE {order_runs[1].solution}) :
         \E all_edges \in {dependency_graph(sol)} :
            \E hash_order \in Orders(SeqToSet(sol)) :
               order_runs' = Append(order_runs,
                   [solution |-> sol, edges |-> all_edges,
                    result |-> install_order(sol, all_edges, hash_order)])
    /\ UNCHANGED <<pc, pool, poolHistory, inputVars, buildVars, tableVars,
                   origins, roots, solution, queryVars>>

\* ------------------------------------------------------------------------
\* provider.rs : sort_candidates
\* ------------------------------------------------------------------------
\* Variant of version_insert that places the new element before its equals.
RECURSIVE version_insert_unstable(_, _)
version_insert_unstable(sorted, x) ==
    IF sorted = <<>> THEN <<x>>
    ELSE IF VersionCmp(resolve_solvable(pool, Head(sorted)).cpv.version,
                       resolve_solvable(pool, x).cpv.version) <= 0
         THEN <<x>> \o sorted
         ELSE <<Head(sorted)>> \o version_insert_unstable(Tail(sorted), x)

\* One insertion of the stable sort under the comparator vb.cmp(va): x goes
\* before the first element whose version is older than its own.
RECURSIVE version_insert(_, _)
version_insert(sorted, x) ==
    IF sorted = <<>> THEN <<x>>
    ELSE IF VersionCmp(resolve_solvable(pool, Head(sorted)).cpv.version,
                       resolve_solvable(pool, x).cpv.version) < 0
         THEN <<x>> \o sorted
         ELSE <<Head(sorted)>> \o version_insert(Tail(sorted), x)

\* solvables.sort_by(|a, b| vb.cmp(va)) : stable, newest first.
RECURSIVE sort_candidates(_)
sort_candidates(solvables) ==
    IF solvables = <<>> THEN <<>>
    ELSE version_insert(sort_candidates(SubSeq(solvables, 1, Len(solvables) - 1)),
                        solvables[Len(solvables)])

MaxSorts == 1

\* The solver hands sort_candidates a slice of solvable ids in any order.
SortCandidates ==
    /\ pc = "sort" /\ Len(sort_runs) < MaxSorts
    /\ \E solvables \in Orders(SolvableIds(pool)) :
          sort_runs' = Append(sort_runs,
              [input |-> solvables, result |-> sort_candidates(solvables)])
    /\ UNCHANGED <<pc, pool, poolHistory, inputVars, buildVars, tableVars,
                   callerVars, match_run>>

\* ------------------------------------------------------------------------
\* Inputs: repositories, USE configurations, installed sets and root atoms
\* ------------------------------------------------------------------------
foo == "app-misc/foo"
qux == "app-misc/qux"
bar == "dev-lib/bar"
baz == "dev-lib/baz"
py == "dev-lang/python"

V(numbers) == Ver(numbers, 0, <<>>, 0)
VR(numbers, revision) == Ver(numbers, 0, <<>>, revision)

\* The test helper pkg(cpv, slot, deps): dependencies go to `depend`.
pkg(cpn, version, slot, deps) ==
    PackageMetadata(Cpv(cpn, version), Some(slot), None, {}, None,
                    PackageDeps(deps, <<>>, <<>>, <<>>, <<>>))

\* InMemoryRepository after add(meta) for each element of metas.
InMemoryRepository(metas) ==
    [cpn \in {metas[i].cpv.cpn : i \in 1..Len(metas)} |->
        SelectSeq(metas, LAMBDA m : m.cpv.cpn = cpn)]

Scenario(metas, cfg, inst, atoms) ==
    [repo |-> InMemoryRepository(metas), use_config |-> cfg,
     installed |-> inst, root_atoms |-> atoms]

NoUse == UseConfig({}, {}, {})
PyRepo == <<pkg(py, V(<<3, 11, 9>>), "3.11", <<>>),
            pkg(py, V(<<3, 12, 4>>), "3.12", <<>>)>>
BarBaz == <<pkg(bar, V(<<1, 0>>), "0", <<>>), pkg(baz, V(<<1, 0>>), "0", <<>>)>>

\* foo: ssl? ( bar ), ssl decided by the solver.
ScnSolverFlag ==
    Scenario(<<pkg(foo, V(<<1, 0>>), "0",
                   <<UseConditional("ssl", FALSE, <<Atom(Dep(bar))>>)>>),
               pkg(bar, V(<<1, 0>>), "0", <<>>)>>,
             UseConfig({}, {}, {"ssl"}), <<>>, {Dep(foo)})

\* foo: ssl? ( bar ) !debug? ( bar ), both flags decided by the solver.
ScnTwoFlags ==
    Scenario(<<pkg(foo, V(<<1, 0>>), "0",
                   <<UseConditional("ssl", FALSE, <<Atom(Dep(bar))>>),
                     UseConditional("debug", TRUE, <<Atom(Dep(bar))>>)>>),
               pkg(bar, V(<<1, 0>>), "0", <<>>)>>,
             UseConfig({}, {}, {"ssl", "debug"}), <<>>, {Dep(foo)})

\* foo: ssl? ( bar ) !debug? ( baz ) zlib? ( qux ), ssl enabled eagerly.
ScnEagerFlags ==
    Scenario(<<pkg(foo, V(<<1, 0>>), "0",
                   <<UseConditional("ssl", FALSE, <<Atom(Dep(bar))>>),
                     UseConditional("debug", TRUE, <<Atom(Dep(baz))>>),
                     UseConditional("zlib", FALSE, <<Atom(Dep(qux))>>)>>)>>
             \o BarBaz,
             UseConfig({"ssl"}, {"debug"}, {}), <<>>, {Dep(foo)})

\* foo: ^^ ( bar baz ) baz
ScnExactlyOne ==
    Scenario(<<pkg(foo, V(<<1, 0>>), "0",
                   <<ExactlyOneOf(<<Atom(Dep(bar)), Atom(Dep(baz))>>),
                     Atom(Dep(baz))>>)>> \o BarBaz,
             NoUse, <<>>, {Dep(foo)})

\* foo: ?? ( bar baz )
ScnAtMostOne ==
    Scenario(<<pkg(foo, V(<<1, 0>>), "0",
                   <<AtMostOneOf(<<Atom(Dep(bar)), Atom(Dep(baz))>>)>>)>> \o BarBaz,
             NoUse, <<>>, {Dep(foo)})

\* foo: python (unslotted), python has slots 3.11 and 3.12.
ScnUnslotted ==
    Scenario(<<pkg(foo, V(<<1, 0>>), "0", <<Atom(Dep(py))>>)>> \o PyRepo,
             NoUse, <<>>, {Dep(foo), Dep(py)})

\* foo: !!python qux; qux: python:3.12
ScnUnslottedBlocker ==
    Scenario(<<pkg(foo, V(<<1, 0>>), "0",
                   <<Atom(Strong(Dep(py))), Atom(Dep(qux))>>),
               pkg(qux, V(<<1, 0>>), "0",
                   <<Atom(WithSlot(Dep(py), SlotNamed("3.12", None, None)))>>)>>
             \o PyRepo,
             NoUse, <<>>, {Dep(foo)})

\* foo: bar:= baz:*
ScnTrigger ==
    Scenario(<<pkg(foo, V(<<1, 0>>), "0",
                   <<Atom(WithSlot(Dep(bar), SlotEqual)),
                     Atom(WithSlot(Dep(baz), SlotStar))>>)>> \o BarBaz,
             NoUse, <<>>, {Dep(foo)})

\* foo: bar:0= ; qux: bar:0
ScnTriggerShared ==
    Scenario(<<pkg(foo, V(<<1, 0>>), "0",
                   <<Atom(WithSlot(Dep(bar), SlotNamed("0", None, Some("Equal"))))>>),
               pkg(qux, V(<<1, 0>>), "0",
                   <<Atom(WithSlot(Dep(bar), SlotNamed("0", None, None)))>>),
               pkg(bar, V(<<1, 0>>), "0", <<>>)>>,
             NoUse, <<>>, {Dep(foo), Dep(qux)})

\* foo: || ( bar:= baz )
ScnTriggerAnyOf ==
    Scenario(<<pkg(foo, V(<<1, 0>>), "0",
                   <<AnyOf(<<Atom(WithSlot(Dep(bar), SlotEqual)),
                             Atom(Dep(baz))>>)>>)>> \o BarBaz,
             NoUse, <<>>, {Dep(foo)})

\* foo: !bar !!baz
ScnBlockers ==
    Scenario(<<pkg(foo, V(<<1, 0>>), "0",
                   <<Atom(Weak(Dep(bar))), Atom(Strong(Dep(baz)))>>)>> \o BarBaz,
             NoUse, <<>>, {Dep(foo), Dep(bar)})

\* foo: !bar ; qux: !!bar
ScnBlockersShared ==
    Scenario(<<pkg(foo, V(<<1, 0>>), "0", <<Atom(Weak(Dep(bar)))>>),
               pkg(qux, V(<<1, 0>>), "0", <<Atom(Strong(Dep(bar)))>>),
               pkg(bar, V(<<1, 0>>), "0", <<>>)>>,
             NoUse, <<>>, {Dep(foo), Dep(qux)})

\* foo: dev-lib/missing (a CPN the repository does not have)
ScnUnknown ==
    Scenario(<<pkg(foo, V(<<1, 0>>), "0", <<Atom(Dep("dev-lib/missing"))>>),
               pkg(bar, V(<<1, 0>>), "0", <<>>)>>,
             NoUse, <<>>, {Dep(foo), Dep(bar)})

\* foo: bar baz; bar-1.0 installed and locked (bar-2.0 also in the
\* repository), baz-0.9 installed and favored but not in the repository.
ScnInstalled ==
    Scenario(<<pkg(foo, V(<<1, 0>>), "0", <<Atom(Dep(bar)), Atom(Dep(baz))>>),
               pkg(bar, V(<<1, 0>>), "0", <<>>),
               pkg(bar, V(<<2, 0>>), "0", <<>>)>>,
             NoUse,
             <<[meta |-> pkg(bar, V(<<1, 0>>), "0", <<>>), policy |-> "Locked"],
               [meta |-> pkg(baz, V(<<0, 9>>), "0", <<>>), policy |-> "Favored"]>>,
             {Dep(foo)})

\* foo blocks bar with each of the seven operators and with slot, sub-slot,
\* repository and USE-dep restrictions; bar has four versions in slot 0 and
\* one in slot 2.
V15 == V(<<1, 5>>)

OperatorBlockers ==
    <<Atom(Weak(DepV(bar, "Less", V15))),
      Atom(Weak(DepV(bar, "LessOrEqual", V15))),
      Atom(Weak(DepV(bar, "Equal", V15))),
      Atom(Strong(DepV(bar, "GreaterOrEqual", V15))),
      Atom(Strong(DepV(bar, "Greater", V15))),
      Atom(Strong(DepV(bar, "Approximate", V15))),
      Atom(Strong(DepV(bar, "EqualGlob", V15))),
      Atom(Weak(WithSlot(Dep(bar), SlotNamed("2", None, None)))),
      Atom(Weak(WithSlot(Dep(bar), SlotNamed("0", Some("1"), None)))),
      Atom(Strong(WithRepo(Dep(bar), "gentoo"))),
      Atom(Strong(WithUse(Dep(bar), <<[flag |-> "ssl", kind |-> "Enabled"]>>))),
      Atom(Weak(WithUse(DepV(bar, "Greater", V15),
                        <<[flag |-> "ssl", kind |-> "Disabled"]>>)))>>

ScnOperators ==
    Scenario(<<pkg(foo, V(<<1, 0>>), "0", OperatorBlockers),
               pkg(bar, V(<<1, 0>>), "0", <<>>),
               pkg(bar, V15, "0", <<>>),
               pkg(bar, VR(<<1, 5>>, 1), "0", <<>>),
               PackageMetadata(Cpv(bar, V(<<1, 5, 1>>)), Some("0"), Some("1"),
                               {"ssl"}, Some("gentoo"), PackageDepsDefault),
               PackageMetadata(Cpv(bar, V(<<2, 0>>)), Some("2"), Some("2.1"),
                               {}, Some("gentoo"), PackageDepsDefault)>>,
             NoUse, <<>>, {Dep(foo)})

\* A package with dependencies in several classes.
pkgd(cpn, version, slot, deps) ==
    PackageMetadata(Cpv(cpn, version), Some(slot), None, {}, None, deps)

\* foo: RDEPEND bar; bar: PDEPEND foo (install_order_pdepend_deferred).
ScnPdependCycle ==
    Scenario(<<pkgd(foo, V(<<1, 0>>), "0",
                    PackageDeps(<<>>, <<Atom(Dep(bar))>>, <<>>, <<>>, <<>>)),
               pkgd(bar, V(<<1, 0>>), "0",
                    PackageDeps(<<>>, <<>>, <<>>, <<Atom(Dep(foo))>>, <<>>))>>,
             NoUse, <<>>, {Dep(foo)})

\* foo: DEPEND bar; bar: RDEPEND foo; qux: DEPEND foo BDEPEND baz.
ScnHardCycle ==
    Scenario(<<pkg(foo, V(<<1, 0>>), "0", <<Atom(Dep(bar))>>),
               pkgd(bar, V(<<1, 0>>), "0",
                    PackageDeps(<<>>, <<Atom(Dep(foo))>>, <<>>, <<>>, <<>>)),
               pkgd(qux, V(<<1, 0>>), "0",
                    PackageDeps(<<Atom(Dep(foo))>>, <<>>, <<Atom(Dep(baz))>>,
                                <<>>, <<>>)),
               pkg(baz, V(<<1, 0>>), "0", <<>>)>>,
             NoUse, <<>>, {Dep(foo), Dep(qux)})

\* foo: bar:1 bar:2; bar-1.0 exists in slot 1 (::gentoo) and in slot 2
\* (::overlay).
ScnEqualCpv ==
    Scenario(<<pkg(foo, V(<<1, 0>>), "0",
                   <<Atom(WithSlot(Dep(bar), SlotNamed("1", None, None))),
                     Atom(WithSlot(Dep(bar), SlotNamed("2", None, None)))>>),
               PackageMetadata(Cpv(bar, V(<<1, 0>>)), Some("1"), None, {},
                               Some("gentoo"), PackageDepsDefault),
               PackageMetadata(Cpv(bar, V(<<1, 0>>)), Some("2"), None, {},
                               Some("overlay"), PackageDepsDefault)>>,
             NoUse, <<>>, {Dep(foo)})

\* foo: !ssl? ( bar ), ssl decided by the solver.
ScnNegatedSolverFlag ==
    Scenario(<<pkg(foo, V(<<1, 0>>), "0",
                   <<UseConditional("ssl", TRUE, <<Atom(Dep(bar))>>)>>),
               pkg(bar, V(<<1, 0>>), "0", <<>>)>>,
             UseConfig({}, {}, {"ssl"}), <<>>, {Dep(foo)})

\* foo: ssl? ( bar ) !ssl? ( baz ) debug? ( qux ) !debug? ( >=bar-1.0 )
\*      zlib? ( >=baz-1.0 ) !zlib? ( >=qux-1.0 !!baz ),
\* ssl enabled and debug disabled eagerly, zlib listed nowhere.
ScnEagerNegated ==
    Scenario(<<pkg(foo, V(<<1, 0>>), "0",
                   <<UseConditional("ssl", FALSE, <<Atom(Dep(bar))>>),
                     UseConditional("ssl", TRUE, <<Atom(Dep(baz))>>),
                     UseConditional("debug", FALSE, <<Atom(Dep(qux))>>),
                     UseConditional("debug", TRUE,
                         <<Atom(DepV(bar, "GreaterOrEqual", V(<<1, 0>>)))>>),
                     UseConditional("zlib", FALSE,
                         <<Atom(DepV(baz, "GreaterOrEqual", V(<<1, 0>>)))>>),
                     UseConditional("zlib", TRUE,
                         <<Atom(DepV(qux, "GreaterOrEqual", V(<<1, 0>>))),
                           Atom(Strong(Dep(baz)))>>)>>),
               pkg(qux, V(<<1, 0>>), "0", <<>>)>> \o BarBaz,
             UseConfig({"ssl"}, {"debug"}, {}), <<>>, {Dep(foo)})

\* python-3.11.9 installed and locked, python 3.12 also in the repository
\* (locked_does_not_affect_other_slots).
ScnLockedSlot ==
    Scenario(PyRepo, NoUse,
             <<[meta |-> pkg(py, V(<<3, 11, 9>>), "3.11", <<>>),
                policy |-> "Locked"]>>,
             {WithSlot(Dep(py), SlotNamed("3.12", None, None)), Dep(py),
              WithSlot(Dep(py), SlotNamed("3.13", None, None))})

\* foo (installed, favored, not in the repository) depends on bar
\* (installed_deps_are_resolved); qux-1.0 installed and locked, qux-2.0 in
\* the repository; bar-1.0 installed, favored and in the repository.
ScnInjected ==
    Scenario(<<pkg(bar, V(<<1, 0>>), "0", <<>>),
               pkg(qux, V(<<2, 0>>), "0", <<>>)>>,
             NoUse,
             <<[meta |-> pkg(foo, V(<<1, 0>>), "0", <<Atom(Dep(bar))>>),
                policy |-> "Favored"],
               [meta |-> pkg(qux, V(<<1, 0>>), "0", <<Atom(Weak(Dep(bar)))>>),
                policy |-> "Locked"],
               [meta |-> pkg(bar, V(<<1, 0>>), "0", <<>>), policy |-> "Favored"]>>,
             {Dep(foo), Dep(qux)})

\* bar-1.0 has no slot; foo: bar:0; baz-1.0 has slot 0; qux: baz.
ScnDefaultSlot ==
    Scenario(<<pkg(foo, V(<<1, 0>>), "0",
                   <<Atom(WithSlot(Dep(bar), SlotNamed("0", None, None)))>>),
               PackageMetadata(Cpv(bar, V(<<1, 0>>)), None, None, {}, None,
                               PackageDepsDefault),
               pkg(qux, V(<<1, 0>>), "0", <<Atom(Dep(baz))>>),
               pkg(baz, V(<<1, 0>>), "0", <<>>)>>,
             NoUse, <<>>, {Dep(foo), Dep(qux), Dep(bar)})

\* foo: ssl? ( !debug? ( bar ) baz ) || ( ssl? ( debug? ( qux ) ) ), both
\* flags decided by the solver; the caller asks for nothing.
ScnNestedFlags ==
    Scenario(<<pkg(foo, V(<<1, 0>>), "0",
                   <<UseConditional("ssl", FALSE,
                         <<UseConditional("debug", TRUE, <<Atom(Dep(bar))>>),
                           Atom(Dep(baz))>>),
                     AnyOf(<<UseConditional("ssl", FALSE,
                                 <<UseConditional("debug", FALSE,
                                       <<Atom(Dep(qux))>>)>>)>>)>>),
               pkg(qux, V(<<1, 0>>), "0", <<>>)>> \o BarBaz,
             UseConfig({}, {}, {"ssl", "debug"}), <<>>, {})

\* foo: zlib? ( ssl? ( bar ) ), zlib listed nowhere;
\* qux: DEPEND ssl? ( bar ) !ssl? ( baz ), RDEPEND ssl? ( baz ) ^^ ( debug? ( bar ) baz );
\* ssl and debug decided by the solver; baz-0.9 is installed (favored) and not
\* in the repository; the caller asks for nothing.
ScnDroppedFlag ==
    Scenario(<<pkg(foo, V(<<1, 0>>), "0",
                   <<UseConditional("zlib", FALSE,
                         <<UseConditional("ssl", FALSE, <<Atom(Dep(bar))>>)>>)>>),
               pkgd(qux, V(<<1, 0>>), "0",
                    PackageDeps(<<UseConditional("ssl", FALSE, <<Atom(Dep(bar))>>),
                                  UseConditional("ssl", TRUE, <<Atom(Dep(baz))>>)>>,
                                <<UseConditional("ssl", FALSE, <<Atom(Dep(baz))>>),
                                  ExactlyOneOf(<<UseConditional("debug", FALSE,
                                                     <<Atom(Dep(bar))>>),
                                                 Atom(Dep(baz))>>)>>,
                                <<>>, <<>>, <<>>))>> \o BarBaz,
             UseConfig({}, {}, {"ssl", "debug"}),
             <<[meta |-> pkg(baz, V(<<0, 9>>), "0", <<>>), policy |-> "Favored"]>>,
             {})

\* foo: || ( bar || ( baz qux ) ); the caller asks for nothing.
ScnNestedAnyOf ==
    Scenario(<<pkg(foo, V(<<1, 0>>), "0",
                   <<AnyOf(<<Atom(Dep(bar)),
                             AnyOf(<<Atom(Dep(baz)), Atom(Dep(qux))>>)>>)>>),
               pkg(qux, V(<<1, 0>>), "0", <<>>)>> \o BarBaz,
             NoUse, <<>>, {})

\* foo: ^^ ( bar baz qux ); qux: ?? ( >=bar-1.0 >=baz-1.0 ); the caller asks
\* for nothing.
ScnOneOfGroups ==
    Scenario(<<pkg(foo, V(<<1, 0>>), "0",
                   <<ExactlyOneOf(<<Atom(Dep(bar)), Atom(Dep(baz)),
                                    Atom(Dep(qux))>>)>>),
               pkg(qux, V(<<1, 0>>), "0",
                   <<AtMostOneOf(<<Atom(DepV(bar, "GreaterOrEqual", V(<<1, 0>>))),
                                   Atom(DepV(baz, "GreaterOrEqual", V(<<1, 0>>)))>>)>>)>>
             \o BarBaz,
             NoUse, <<>>, {})

\* foo: ssl? ( !bar baz ) || ( ssl? ( !!qux >=baz-1.0 ) ), ssl decided by the
\* solver.
ScnConditionalBlocker ==
    Scenario(<<pkg(foo, V(<<1, 0>>), "0",
                   <<UseConditional("ssl", FALSE,
                         <<Atom(Weak(Dep(bar))), Atom(Dep(baz))>>),
                     AnyOf(<<UseConditional("ssl", FALSE,
                                 <<Atom(Strong(Dep(qux))),
                                   Atom(DepV(baz, "GreaterOrEqual",
                                             V(<<1, 0>>)))>>)>>)>>),
               pkg(qux, V(<<1, 0>>), "0", <<>>)>> \o BarBaz,
             UseConfig({}, {}, {"ssl"}), <<>>, {Dep(foo)})

Scenarios ==
    {ScnSolverFlag, ScnTwoFlags, ScnEagerFlags, ScnExactlyOne, ScnAtMostOne,
     ScnUnslotted, ScnUnslottedBlocker, ScnTrigger, ScnTriggerShared,
     ScnTriggerAnyOf, ScnBlockers, ScnBlockersShared, ScnUnknown, ScnInstalled,
     ScnOperators, ScnPdependCycle, ScnHardCycle, ScnEqualCpv,
     ScnNegatedSolverFlag, ScnEagerNegated, ScnLockedSlot, ScnInjected,
     ScnDefaultSlot, ScnNestedFlags, ScnDroppedFlag,
     ScnNestedAnyOf, ScnOneOfGroups, ScnConditionalBlocker}

\* ------------------------------------------------------------------------
\* Specification Spec: with_installed, then the caller's requirements and
\* the solve
\* ------------------------------------------------------------------------
Init ==
    /\ pc = "phase1"
    /\ pool = PoolNew
    /\ issued = IssuedNone /\ vs_calls = <<>> /\ steps = 0
    /\ \E sc \in Scenarios :
         /\ repo = sc.repo
         /\ use_config = sc.use_config
         /\ installed = sc.installed
         /\ root_atoms = sc.root_atoms
         /\ todo = DOMAIN sc.repo
         /\ flags_todo = sc.use_config.solver_decided
    /\ solvable_meta = <<>> /\ found_installed = {} /\ xof_counter = 0
    /\ candidates = EmptyMap /\ dependencies = EmptyMap /\ cpn_slots = EmptyMap
    /\ blocker_types = EmptyMap /\ rebuild_triggers = {}
    /\ flag_virtuals = EmptyMap /\ favored = EmptyMap /\ locked = EmptyMap
    /\ origins = {} /\ roots = <<>> /\ solution = None /\ order_runs = <<>>
    /\ sort_runs = <<>> /\ match_run = None

Next ==
    \/ Phase1Repo
    \/ InjectInstalled
    \/ Phase15Flag
    \/ Phase2Convert
    \/ InternRequirement
    \/ Solve
    \/ SolveUnsat
    \/ InstallOrder

Spec == Init /\ [][Next]_vars

\* ------------------------------------------------------------------------
\* Specification SpecSort: sort_candidates on pools of equal and different
\* versions of one package
\* ------------------------------------------------------------------------
\* A provider that holds nothing but its pool.
EmptyProvider ==
    /\ issued = IssuedNone /\ vs_calls = <<>> /\ steps = 0
    /\ repo = EmptyMap /\ use_config = UseConfig({}, {}, {})
    /\ installed = <<>> /\ root_atoms = {}
    /\ todo = {} /\ flags_todo = {} /\ solvable_meta = <<>>
    /\ found_installed = {} /\ xof_counter = 0
    /\ candidates = EmptyMap /\ dependencies = EmptyMap /\ cpn_slots = EmptyMap
    /\ blocker_types = EmptyMap /\ rebuild_triggers = {}
    /\ flag_virtuals = EmptyMap /\ favored = EmptyMap /\ locked = EmptyMap
    /\ origins = {} /\ roots = <<>> /\ solution = None /\ order_runs = <<>>

MaxSolvables == 3
SortVersions == {V(<<1, 0>>), VR(<<1, 0>>, 1), V(<<2, 0>>)}

\* The pool after intern_solvable for one package per version of `versions`.
RECURSIVE pool_of_versions(_, _)
pool_of_versions(p, versions) ==
    IF versions = <<>> THEN p
    ELSE LET n == intern_name(p, PackageName(bar, Some("0")))
         IN pool_of_versions(
                intern_solvable(n.pool, n.id,
                                pkg(bar, Head(versions), "0", <<>>)).pool,
                Tail(versions))

InitSort ==
    /\ pc = "sort"
    /\ \E versions \in [1..MaxSolvables -> SortVersions] :
          pool = pool_of_versions(PoolNew, versions)
    /\ EmptyProvider
    /\ sort_runs = <<>> /\ match_run = None

NextSort == SortCandidates

SpecSort == InitSort /\ [][NextSort]_vars

\* ------------------------------------------------------------------------
\* Specification SpecMatch: version_matches on pairs of versions
\* ------------------------------------------------------------------------
MaxNumbers == 2
GlobNumbers == {1, 7, 75}
GlobLetters == {0, 1, 2}

\* Versions of up to MaxNumbers components, with or without a letter.
GlobVersions(revisions) ==
    {Ver(numbers, letter, <<>>, revision) :
        numbers \in UNION {[1..n -> GlobNumbers] : n \in 1..MaxNumbers},
        letter \in GlobLetters, revision \in revisions}

InitMatch ==
    /\ pc = "match"
    /\ pool = PoolNew
    /\ EmptyProvider
    /\ sort_runs = <<>>
    /\ \E candidate \in GlobVersions({0, 1}), constraint \in GlobVersions({0}) :
          match_run = Some([candidate |-> candidate, op |-> "EqualGlob",
                            constraint |-> constraint, result |-> None])

VersionMatches ==
    /\ pc = "match" /\ match_run # None
    /\ Unwrap(match_run).result = None
    /\ match_run' = Some([Unwrap(match_run) EXCEPT !.result =
           Some(version_matches(Unwrap(match_run).candidate,
                                Unwrap(match_run).op,
                                Unwrap(match_run).constraint))])
    /\ UNCHANGED <<pc, pool, poolHistory, inputVars, buildVars, tableVars,
                   callerVars, sort_runs>>

NextMatch == VersionMatches

SpecMatch == InitMatch /\ [][NextMatch]_vars

\* ------------------------------------------------------------------------
\* Vocabulary of the properties
\* ------------------------------------------------------------------------
Sol == Unwrap(solution)
MetaOf(sid) == resolve_solvable(pool, sid)
CpnOf(sid) == MetaOf(sid).cpv.cpn

\* All entries of all dependency classes of a package.
AllEntries(meta) ==
    LET d == meta.dependencies
    IN d.depend \o d.rdepend \o d.bdepend \o d.pdepend \o d.idepend

\* The dependency tree `entries` has a USE conditional on `flag`.
RECURSIVE MentionsFlag(_, _)
MentionsFlag(entries, flag) ==
    \E i \in 1..Len(entries) :
        \/ entries[i].t = "UseConditional" /\ entries[i].flag = flag
        \/ MentionsFlag(entries[i].children, flag)

\* The CPNs of the virtual choices of ^^ / ?? group g.
XofCpns(g) ==
    {"virtual/xof_" \o ToString(g) \o "_none"} \cup
    {"virtual/xof_" \o ToString(g) \o "_" \o ToString(i) :
        i \in 0..Len(pool.solvables)}

\* The alternatives of a group of plain atoms that have a member of S as
\* their target.
TargetsHit(entry, S) ==
    {i \in 1..Len(entry.children) :
        \E t \in S : dep_matches_solvable(entry.children[i].dep, MetaOf(t),
                                           use_config)}

\* ------------------------------------------------------------------------
\* C1. For every solver-decided flag, every assignment that satisfies the
\* compiled constraints and contains a solvable whose dependency tree refers
\* to the flag selects exactly one of virtual/USE_<flag> and
\* virtual/NotUSE_<flag>: never both, never neither.
\* ------------------------------------------------------------------------
C1_ExactlyOneFlagVirtual ==
    pc = "solved" =>
        \A flag \in use_config.solver_decided :
            (\E s \in Sol : MentionsFlag(AllEntries(MetaOf(s)), flag))
            => Cardinality({t \in Sol :
                   CpnOf(t) \in {"virtual/USE_" \o flag,
                                 "virtual/NotUSE_" \o flag}}) = 1

\* ------------------------------------------------------------------------
\* C2. No assignment that satisfies the compiled constraints selects two
\* distinct virtual choice solvables of one ^^ ( ) or ?? ( ) group.
\* ------------------------------------------------------------------------
C2_GroupChoicesExclusive ==
    pc = "solved" =>
        \A g \in 0..(xof_counter - 1) :
            Cardinality({t \in Sol : CpnOf(t) \in XofCpns(g)}) <= 1

\* ------------------------------------------------------------------------
\* C3. Every solution that contains a package whose dependencies hold
\* ^^ ( a b ... ) contains the target of exactly one alternative, also when
\* another requirement pulls in one of the alternatives.
\* ------------------------------------------------------------------------
C3_ExactlyOneTarget ==
    pc = "solved" =>
        \A s \in Sol :
            LET entries == AllEntries(MetaOf(s))
            IN \A i \in 1..Len(entries) :
                  entries[i].t = "ExactlyOneOf"
                  => Cardinality(TargetsHit(entries[i], Sol)) = 1

\* ------------------------------------------------------------------------
\* C4. An unslotted, non-blocker atom whose CPN has k >= 2 known slot names
\* compiles, in convert_atom and in intern_requirement, to a Union that
\* holds for each of the k slot names a version-set id whose
\* version_set_name is that name.
\* ------------------------------------------------------------------------
C4_UnslottedUnionCoversSlots ==
    \A o \in origins :
        (/\ o.site \in {"convert_atom", "intern_requirement"}
         /\ o.dep.blocker = None
         /\ extract_slot(o.dep)[1] = None
         /\ Len(o.name_ids) >= 2)
        => /\ IsSome(o.req)
           /\ Unwrap(o.req).kind = "Union"
           /\ \A n \in SeqToSet(cpn_slots[o.dep.cpn]) :
                 \E vs \in SeqToSet(resolve_version_set_union(pool,
                                                              Unwrap(o.req).id)) :
                     version_set_name(pool, vs) = n

\* ------------------------------------------------------------------------
\* C5. In every solution that satisfies the compiled constraints, for every
\* blocker atom of every member, no other member matches the blocked atom,
\* including unslotted blockers on a CPN with several slots.
\* ------------------------------------------------------------------------
C5_BlockersKeepMatchesOut ==
    pc = "solved" =>
        \A o \in origins :
            (IsSome(o.dep.blocker) /\ IsSome(o.owner) /\ Unwrap(o.owner) \in Sol)
            => \A t \in Sol \ o.owner :
                  ~dep_matches_solvable(o.dep, MetaOf(t), use_config)

\* ------------------------------------------------------------------------
\* C6. For a version set created from a blocker, filter_candidates with
\* inverse = true returns exactly the candidates that match the blocked
\* atom (operator and version, slot, sub-slot, repository, USE deps), for
\* each of the seven operators.
\* ------------------------------------------------------------------------
C6_BlockerFilterReturnsMatches ==
    \A o \in origins :
        (IsSome(o.dep.blocker) /\ o.site = "convert_atom")
        => \A n \in SeqToSet(cpn_slots[o.dep.cpn]), i \in 1..Len(o.vs_ids) :
              filter_candidates(pool, CandidatesOf(n), o.vs_ids[i], TRUE)
              = SelectSeq(CandidatesOf(n),
                    LAMBDA sid : dep_matches_solvable(o.dep, MetaOf(sid),
                                                      use_config))

\* Blockers with all seven operators were compiled, and for each of them the
\* filter kept some candidates of a name and dropped others.
C6_Witness ==
    /\ pc = "ready"
    /\ \A op \in Operators :
          \E o \in origins :
              /\ IsSome(o.dep.blocker)
              /\ dep_op_version(o.dep)[1] = op
              /\ IsSome(o.dep.version)
              /\ \E n \in SeqToSet(cpn_slots[o.dep.cpn]) :
                    LET kept == filter_candidates(pool, CandidatesOf(n),
                                                  o.vs_ids[1], TRUE)
                    IN kept # <<>> /\ kept # CandidatesOf(n)

\* ------------------------------------------------------------------------
\* C9. is_rebuild_trigger(vs) is true exactly for the version sets produced
\* from an atom carrying := or :SLOT=; a version set produced from an atom
\* with :*, a plain slot or no slot dependency is not reported, whatever
\* other atoms exist and wherever the atom sits in the tree.
\* ------------------------------------------------------------------------
C9_TriggerExactlyForSlotEqual ==
    \A o \in origins :
        \A i \in 1..Len(o.vs_ids) :
            is_rebuild_trigger(o.vs_ids[i]) <=> has_slot_equal_op(o.dep)

\* ------------------------------------------------------------------------
\* C10. blocker_type(vs) is Some(Weak) for every version set generated from
\* a !atom blocker, Some(Strong) for every one generated from a !!atom
\* blocker and None for every version set not generated from a blocker,
\* whatever the order in which the packages were compiled.
\* ------------------------------------------------------------------------
C10_BlockerTypeMatchesAtom ==
    \A vs \in VersionSetIds(pool) :
        LET kinds == {o.dep.blocker :
                         o \in {x \in origins : Contains(x.vs_ids, vs)}}
        IN /\ kinds \subseteq {None} => blocker_type(vs) = None
           /\ \A k \in kinds \ {None} : blocker_type(vs) = k

\* ------------------------------------------------------------------------
\* C7. After any sequence of pool operations, two intern_version_set calls
\* with equal VersionConstraint values returned the same id, calls with
\* different values returned different ids, and a call whose constraint had
\* been interned before added no entry to the version-set arena.
\* ------------------------------------------------------------------------
C7_InternVersionSetInjective ==
    \A i \in 1..Len(vs_calls), j \in 1..Len(vs_calls) :
        /\ (vs_calls[i].constraint = vs_calls[j].constraint)
              <=> (vs_calls[i].id = vs_calls[j].id)
        /\ (i < j /\ vs_calls[i].constraint = vs_calls[j].constraint)
              => vs_calls[j].after = vs_calls[j].before

\* A repeated call (equal constraint, other name id) and a call with a
\* different constraint have both happened.
C7_Witness ==
    \E i \in 1..Len(vs_calls), j \in 1..Len(vs_calls), k \in 1..Len(vs_calls) :
        /\ i < j
        /\ vs_calls[i].constraint = vs_calls[j].constraint
        /\ vs_calls[i].name # vs_calls[j].name
        /\ vs_calls[k].constraint # vs_calls[i].constraint

\* ------------------------------------------------------------------------
\* C8. Ids never dangle and never change meaning: every id the pool issued
\* still resolves, through every resolve function of its axis, to the value
\* it was issued for, and the ids of each axis were issued as 0, 1, 2, ...
\* ------------------------------------------------------------------------
C8_IdsStable ==
    /\ \A k \in 1..Len(issued.names) :
          /\ issued.names[k].id = k - 1
          /\ issued.names[k].id \in NameIds(pool)
          /\ resolve_name(pool, issued.names[k].id) = issued.names[k].value
    /\ \A k \in 1..Len(issued.solvables) :
          /\ issued.solvables[k].id = k - 1
          /\ issued.solvables[k].id \in SolvableIds(pool)
          /\ resolve_solvable(pool, issued.solvables[k].id)
                = issued.solvables[k].value.meta
          /\ solvable_name(pool, issued.solvables[k].id)
                = issued.solvables[k].value.name
    /\ \A k \in 1..Len(issued.version_sets) :
          /\ issued.version_sets[k].id = k - 1
          /\ issued.version_sets[k].id \in VersionSetIds(pool)
          /\ resolve_version_set(pool, issued.version_sets[k].id)
                = issued.version_sets[k].value.constraint
          /\ version_set_name(pool, issued.version_sets[k].id)
                = issued.version_sets[k].value.name
    /\ \A k \in 1..Len(issued.unions) :
          /\ issued.unions[k].id = k - 1
          /\ issued.unions[k].id \in UnionIds(pool)
          /\ resolve_version_set_union(pool, issued.unions[k].id)
                = issued.unions[k].value
    /\ \A k \in 1..Len(issued.conditions) :
          /\ issued.conditions[k].id = k - 1
          /\ issued.conditions[k].id \in ConditionIds(pool)
          /\ resolve_condition(pool, issued.conditions[k].id)
                = issued.conditions[k].value
    /\ \A k \in 1..Len(issued.strings) :
          /\ issued.strings[k].id = k - 1
          /\ issued.strings[k].id < Len(pool.strings)
          /\ resolve_string(pool, issued.strings[k].id) = issued.strings[k].value

\* Two version sets were issued and later operations on other axes followed.
C8_Witness ==
    /\ Len(issued.version_sets) >= 2
    /\ Len(issued.names) >= 2
    /\ Len(vs_calls) > Len(issued.version_sets)

\* ------------------------------------------------------------------------
\* Vocabulary of the install-order properties
\* ------------------------------------------------------------------------
Pos(s, x) == CHOOSE i \in 1..Len(s) : s[i] = x

IsPermutation(s, t) ==
    /\ Len(s) = Len(t)
    /\ SeqToSet(s) = SeqToSet(t)
    /\ Cardinality(SeqToSet(s)) = Len(s)

\* The (from, to) pairs of the edges of a run whose class is not Pdepend.
HardPairs(run) ==
    {<<run.edges[k].from, run.edges[k].to>> :
        k \in {j \in 1..Len(run.edges) : run.edges[j].class # "Pdepend"}}

AllPairs(run) ==
    {<<run.edges[k].from, run.edges[k].to>> : k \in 1..Len(run.edges)}

\* Transitive closure of R after k rounds of composing R with itself.
RECURSIVE Closure(_, _)
Closure(R, k) ==
    IF k = 0 THEN R
    ELSE Closure(R \cup {<<x[1][1], x[2][2]>> :
                            x \in {y \in R \X R : y[1][2] = y[2][1]}},
                 k - 1)

OnCycle(n, R, k) == <<n, n>> \in Closure(R, k)

Acyclic(R, k) == \A p \in Closure(R, k) : p[1] # p[2]

\* The edges dependency_graph would emit if every USE conditional on a
\* solver-decided flag were evaluated against the flag's state in sol.
FlagOnIn(sol, flag) ==
    \/ flag \in use_config.enabled
    \/ /\ flag \in use_config.solver_decided
       /\ \E t \in SeqToSet(sol) : CpnOf(t) = "virtual/USE_" \o flag

RECURSIVE EffectiveEdges(_, _, _, _)
EffectiveEdges(from, class, entries, sol) ==
    IF entries = <<>> THEN <<>>
    ELSE (CASE Head(entries).t = "Atom" ->
                 IF IsSome(Head(entries).dep.blocker) THEN <<>>
                 ELSE atom_edges(from, class, Head(entries).dep, sol)
            [] Head(entries).t = "UseConditional" ->
                 IF FlagOnIn(sol, Head(entries).flag) # Head(entries).negate
                 THEN EffectiveEdges(from, class, Head(entries).children, sol)
                 ELSE <<>>
            [] OTHER ->
                 EffectiveEdges(from, class, Head(entries).children, sol))
         \o EffectiveEdges(from, class, Tail(entries), sol)

RECURSIVE EffectiveClassEdges(_, _, _)
EffectiveClassEdges(from, classes, sol) ==
    IF classes = <<>> THEN <<>>
    ELSE EffectiveEdges(from, Head(classes)[1], Head(classes)[2], sol)
         \o EffectiveClassEdges(from, Tail(classes), sol)

RECURSIVE EffectiveGraph(_, _)
EffectiveGraph(rest, sol) ==
    IF rest = <<>> THEN <<>>
    ELSE EffectiveClassEdges(Head(rest),
                             iter_classes(MetaOf(Head(rest)).dependencies), sol)
         \o EffectiveGraph(Tail(rest), sol)

\* ------------------------------------------------------------------------
\* C11. When install_order(S) returns Ok(order), order is a permutation of
\* S, and for every edge (from, to, class) of dependency_graph(S) whose
\* class is not Pdepend, `to` stands before `from` in order.
\* ------------------------------------------------------------------------
C11_OrderRespectsHardEdges ==
    \A i \in 1..Len(order_runs) :
        order_runs[i].result.ok
        => /\ IsPermutation(order_runs[i].result.list, order_runs[i].solution)
           /\ \A p \in HardPairs(order_runs[i]) :
                 Pos(order_runs[i].result.list, p[2])
                    < Pos(order_runs[i].result.list, p[1])

\* install_order returned Ok on a solution that has an edge it must respect
\* and a Pdepend edge pointing the other way.
C11_Witness ==
    \E i \in 1..Len(order_runs) :
        /\ order_runs[i].result.ok
        /\ HardPairs(order_runs[i]) # {}
        /\ \E k \in 1..Len(order_runs[i].edges) :
              /\ order_runs[i].edges[k].class = "Pdepend"
              /\ Pos(order_runs[i].result.list, order_runs[i].edges[k].from)
                    < Pos(order_runs[i].result.list, order_runs[i].edges[k].to)

\* ------------------------------------------------------------------------
\* C12. For a solution of distinct solvable ids, install_order returns Ok
\* exactly when the non-Pdepend edges of dependency_graph(S) have no cycle;
\* a cycle closed only by a Pdepend edge does not make it return Err.
\* ------------------------------------------------------------------------
C12_OkIffNoHardCycle ==
    \A i \in 1..Len(order_runs) :
        order_runs[i].result.ok
        <=> Acyclic(HardPairs(order_runs[i]), Len(order_runs[i].solution))

\* install_order returned Ok although the graph of all edges, Pdepend
\* included, has a cycle.
C12_Witness ==
    \E i \in 1..Len(order_runs) :
        /\ order_runs[i].result.ok
        /\ ~Acyclic(AllPairs(order_runs[i]), Len(order_runs[i].solution))

\* ------------------------------------------------------------------------
\* C13. When install_order(S) returns Err(members), every solvable of
\* members lies on a cycle of non-Pdepend edges of dependency_graph(S).
\* ------------------------------------------------------------------------
C13_ErrMembersLieOnCycle ==
    \A i \in 1..Len(order_runs) :
        ~order_runs[i].result.ok
        => \A m \in SeqToSet(order_runs[i].result.list) :
              OnCycle(m, HardPairs(order_runs[i]), Len(order_runs[i].solution))

\* ------------------------------------------------------------------------
\* C14. install_order is deterministic: two calls on the same provider and
\* the same solution return the same result, whatever order the hash maps
\* are iterated in, also when two members of the solution have equal CPV.
\* ------------------------------------------------------------------------
C14_InstallOrderDeterministic ==
    \A i \in 1..Len(order_runs), j \in 1..Len(order_runs) :
        order_runs[i].solution = order_runs[j].solution
        => order_runs[i].result = order_runs[j].result

\* ------------------------------------------------------------------------
\* C15. dependency_graph(S) evaluates a USE conditional on a solver-decided
\* flag against the flag's state in S: `flag? ( X )` contributes edges only
\* when virtual/USE_<flag> is in S, `!flag? ( X )` only when it is not.
\* ------------------------------------------------------------------------
C15_GraphFollowsFlagState ==
    \A i \in 1..Len(order_runs) :
        order_runs[i].edges
           = EffectiveGraph(order_runs[i].solution, order_runs[i].solution)

\* ------------------------------------------------------------------------
\* Vocabulary of the eager-flag property
\* ------------------------------------------------------------------------
\* The atoms at the top level of `children`.
AtomsOf(children) ==
    {children[k].dep : k \in {j \in 1..Len(children) : children[j].t = "Atom"}}

\* The top-level USE conditionals on eagerly evaluated flags of solvable s
\* whose atoms stand in no other entry of its tree.
EagerConditionals(s) ==
    LET entries == AllEntries(MetaOf(s))
    IN {i \in 1..Len(entries) :
          /\ entries[i].t = "UseConditional"
          /\ entries[i].flag \notin use_config.solver_decided
          /\ \A j \in (1..Len(entries)) \ {i} :
                AtomsOf(entries[i].children)
                   \cap (AtomsOf(<<entries[j]>>) \cup AtomsOf(entries[j].children))
                = {}}

\* Atom dep of solvable s was compiled into s's own requirements (without
\* a condition) or, for a blocker, into s's own constrains.
CompiledIntoParent(s, dep) ==
    \E o \in origins :
        /\ o.owner = Some(s) /\ o.dep = dep
        /\ IF IsSome(dep.blocker)
           THEN \A k \in 1..Len(o.vs_ids) :
                   Contains(get_dependencies(s).constrains, o.vs_ids[k])
           ELSE /\ IsSome(o.req)
                /\ Unwrap(o.req).condition = None
                /\ Contains(get_dependencies(s).requirements, Unwrap(o.req))

ProducedNothing(s, dep) == \A o \in origins : ~(o.owner = Some(s) /\ o.dep = dep)

\* ------------------------------------------------------------------------
\* C16. For a flag that is not solver-decided: when it is in the enabled
\* set, the children of `flag? ( X )` are compiled into the parent's
\* requirements/constrains and the children of `!flag? ( X )` produce
\* nothing; when it is in the disabled set or listed nowhere, the reverse.
\* ------------------------------------------------------------------------
C16_EagerFlagsInlineOrDrop ==
    \A s \in DOMAIN dependencies \cap SolvableIds(pool) :
        \A i \in EagerConditionals(s) :
            LET e == AllEntries(MetaOf(s))[i]
            IN \A dep \in AtomsOf(e.children) :
                  IF (e.flag \in use_config.enabled) # e.negate
                  THEN CompiledIntoParent(s, dep)
                  ELSE ProducedNothing(s, dep)

\* A package whose tree holds `flag? ( X )` and `!flag? ( X )` for an
\* enabled, a disabled and an unlisted flag has been compiled.
C16_Witness ==
    \E s \in DOMAIN dependencies \cap SolvableIds(pool) :
        \A negate \in BOOLEAN :
            /\ \E i \in EagerConditionals(s) :
                  LET e == AllEntries(MetaOf(s))[i]
                  IN /\ e.negate = negate /\ e.flag \in use_config.enabled
                     /\ AtomsOf(e.children) # {}
            /\ \E i \in EagerConditionals(s) :
                  LET e == AllEntries(MetaOf(s))[i]
                  IN /\ e.negate = negate /\ e.flag \in use_config.disabled
                     /\ AtomsOf(e.children) # {}
            /\ \E i \in EagerConditionals(s) :
                  LET e == AllEntries(MetaOf(s))[i]
                  IN /\ e.negate = negate
                     /\ e.flag \notin use_config.enabled \cup use_config.disabled
                     /\ AtomsOf(e.children) # {}

\* ------------------------------------------------------------------------
\* Vocabulary of the installed-set properties
\* ------------------------------------------------------------------------
Constructed == pc \in {"ready", "solved", "unsat"}

\* The repository entries, as a set of PackageMetadata.
RepoMetas == UNION {SeqToSet(repo[cpn]) : cpn \in DOMAIN repo}

InRepo(cpv) == \E m \in RepoMetas : m.cpv = cpv

\* The solvables that carry a CPV.
SolvablesOf(cpv) == {sid \in SolvableIds(pool) : MetaOf(sid).cpv = cpv}

PolicyMap(policy) == IF policy = "Favored" THEN favored ELSE locked

\* Every plain atom at the top level of the trees of solvable s reached the
\* requirements or constrains of s.
TreesCompiled(s) ==
    /\ s \in DOMAIN dependencies
    /\ \A dep \in AtomsOf(AllEntries(MetaOf(s))) : CompiledIntoParent(s, dep)

EntryBelongs(n, policy) ==
    \E k \in 1..Len(installed) :
        /\ installed[k].policy = policy
        /\ \E sid \in SeqToSet(CandidatesOf(n)) :
              MetaOf(sid).cpv = installed[k].meta.cpv

DefaultSlot(slot) == slot \in {None, Some("0")}

C19_DefaultSlotCanonical ==
    /\ \A n \in NameIds(pool), m \in NameIds(pool) :
          (/\ resolve_name(pool, n).cpn = resolve_name(pool, m).cpn
           /\ DefaultSlot(resolve_name(pool, n).slot)
           /\ DefaultSlot(resolve_name(pool, m).slot))
          => n = m
    /\ \A vs \in VersionSetIds(pool), sid \in SolvableIds(pool) :
          LET c == resolve_version_set(pool, vs)
          IN (/\ DefaultSlot(c.slot) /\ DefaultSlot(MetaOf(sid).slot)
              /\ c.cpn = MetaOf(sid).cpv.cpn)
             => slot_matches(MetaOf(sid), c)
                   = slot_matches(MetaOf(sid), [c EXCEPT !.slot = None])

\* ------------------------------------------------------------------------
\* C20. After construction the solver-facing state is frozen: the queries,
\* dependency_graph and install_order change no provider state, and
\* intern_requirement only appends names, version sets and unions; every
\* candidate list, every pre-computed KnownDependencies, the favored and
\* locked maps, cpn_slots and the value of every issued id stay as they are.
\* ------------------------------------------------------------------------
IsPrefix(s, t) == Len(s) <= Len(t) /\ SubSeq(t, 1, Len(s)) = s

FrozenStep ==
    /\ UNCHANGED <<candidates, dependencies, favored, locked, cpn_slots>>
    /\ UNCHANGED <<blocker_types, rebuild_triggers, flag_virtuals, use_config>>
    /\ IsPrefix(pool.names, pool'.names)
    /\ IsPrefix(pool.version_sets, pool'.version_sets)
    /\ IsPrefix(pool.version_set_names, pool'.version_set_names)
    /\ IsPrefix(pool.version_set_unions, pool'.version_set_unions)
    /\ pool'.solvables = pool.solvables
    /\ pool'.solvable_names = pool.solvable_names
    /\ pool'.conditions = pool.conditions
    /\ pool'.strings = pool.strings
    /\ roots' = roots => pool' = pool

C20_FrozenAfterConstruction == [][Constructed => FrozenStep]_vars

\* intern_requirement added a name and a version set to a constructed
\* provider, the solver ran and install_order was called.
C20_Witness ==
    /\ pc = "solved" /\ order_runs # <<>>
    /\ \E o \in origins :
          /\ o.site = "intern_requirement"
          /\ \A x \in origins \ {o} :
                /\ SeqToSet(x.vs_ids) \cap SeqToSet(o.vs_ids) = {}
                /\ SeqToSet(x.name_ids) \cap SeqToSet(o.name_ids) = {}

\* ------------------------------------------------------------------------
\* sort_candidates
\* ------------------------------------------------------------------------
VersionOf(sid) == resolve_solvable(pool, sid).cpv.version

\* r lists the elements of input newest first, equal versions in input order.
NewestFirstStable(r, input) ==
    /\ IsPermutation(r, input)
    /\ \A i, j \in 1..Len(r) :
          i < j => /\ VersionCmp(VersionOf(r[i]), VersionOf(r[j])) >= 0
                   /\ VersionCmp(VersionOf(r[i]), VersionOf(r[j])) = 0
                         => Pos(input, r[i]) < Pos(input, r[j])

\* C21. sort_candidates returns its input ordered by version, newest first,
\* solvables of equal version in their input order; that ordering is the
\* only one with these properties, so the result is a function of the input.
C21_SortNewestFirstStable ==
    \A i \in 1..Len(sort_runs) :
        /\ NewestFirstStable(sort_runs[i].result, sort_runs[i].input)
        /\ \A r \in Orders(SeqToSet(sort_runs[i].input)) :
              NewestFirstStable(r, sort_runs[i].input)
                 => r = sort_runs[i].result

\* A call whose input holds two solvables of equal version followed by a
\* newer one.
C21_Witness ==
    \E i \in 1..Len(sort_runs) :
        LET input == sort_runs[i].input
        IN /\ Len(input) >= 3
           /\ VersionCmp(VersionOf(input[1]), VersionOf(input[2])) = 0
           /\ VersionCmp(VersionOf(input[2]), VersionOf(input[3])) < 0
           /\ sort_runs[i].result # input

\* ------------------------------------------------------------------------
\* version_matches with `=*`
\* ------------------------------------------------------------------------
\* The sequence c is a prefix of k, component by component.
NumbersPrefix(c, k) == Len(c) <= Len(k) /\ SubSeq(k, 1, Len(c)) = c

RECURSIVE AtomCount(_, _)
AtomCount(entries, dep) ==
    IF entries = <<>> THEN 0
    ELSE (IF Head(entries).t = "Atom" /\ Head(entries).dep = dep THEN 1 ELSE 0)
         + AtomCount(Head(entries).children, dep)
         + AtomCount(Tail(entries), dep)

\* dep stands once in the trees of solvable s and in no other tree.
UniqueAtom(s, dep) ==
    /\ AtomCount(AllEntries(MetaOf(s)), dep) = 1
    /\ \A t \in SolvableIds(pool) \ {s} :
          AtomCount(AllEntries(MetaOf(t)), dep) = 0

\* The USE conditionals on solver-decided flags anywhere in `entries`.
RECURSIVE SolverConditionals(_)
SolverConditionals(entries) ==
    IF entries = <<>> THEN {}
    ELSE (IF /\ Head(entries).t = "UseConditional"
             /\ Head(entries).flag \in use_config.solver_decided
          THEN {Head(entries)} ELSE {})
         \cup SolverConditionals(Head(entries).children)
         \cup SolverConditionals(Tail(entries))

\* The condition id of a conditional on a solver-decided flag.
ConditionOf(c) ==
    IF c.negate THEN flag_virtuals[c.flag].off_condition
    ELSE flag_virtuals[c.flag].on_condition

\* Requirement r asks for version set vs, alone or as a member of its union.
ReqMentions(r, vs) ==
    IF r.kind = "Single" THEN r.id = vs
    ELSE Contains(resolve_version_set_union(pool, r.id), vs)

\* The compiled requirements, of any solvable, that ask for a version set
\* atom dep of solvable s produced.
RequirementsOf(s, dep) ==
    {r \in UNION {SeqToSet(dependencies[t].requirements) : t \in DOMAIN dependencies} :
        \E o \in origins :
            /\ o.owner = Some(s) /\ o.dep = dep
            /\ \E k \in 1..Len(o.vs_ids) : ReqMentions(r, o.vs_ids[k])}

\* C23. Every requirement compiled from an atom directly under `flag? ( )`
\* on a solver-decided flag carries the flag's on-condition, under
\* `!flag? ( )` its off-condition, and there is such a requirement.
C23_ChildrenCarryOwnCondition ==
    \A s \in DOMAIN dependencies \cap SolvableIds(pool) :
        \A c \in SolverConditionals(AllEntries(MetaOf(s))) :
            \A dep \in AtomsOf(c.children) :
                (dep.blocker = None /\ UniqueAtom(s, dep))
                => /\ RequirementsOf(s, dep) # {}
                   /\ \A r \in RequirementsOf(s, dep) :
                         r.condition = Some(ConditionOf(c))

\* The atoms of `entries` that convert_deps reaches below a USE conditional
\* on a solver-decided flag, each with the condition of the outermost such
\* conditional around it (`outer`, once inside one) and the number of such
\* conditionals around it. A ^^ / ?? group compiles its alternatives into
\* the vectors of its virtuals, so the nesting starts anew inside it.
RECURSIVE NestedAtoms(_, _, _)
NestedAtoms(entries, outer, depth) ==
    IF entries = <<>> THEN {}
    ELSE LET e == Head(entries)
             here ==
                CASE e.t = "Atom" ->
                       IF depth > 0
                       THEN {[dep |-> e.dep, cond |-> Unwrap(outer), depth |-> depth]}
                       ELSE {}
                  [] e.t = "UseConditional" ->
                       IF e.flag \in use_config.solver_decided
                       THEN NestedAtoms(e.children,
                                IF depth = 0 THEN Some(ConditionOf(e)) ELSE outer,
                                depth + 1)
                       ELSE IF eager_include(use_config, e.flag, e.negate)
                            THEN NestedAtoms(e.children, outer, depth)
                            ELSE {}
                  [] e.t = "AnyOf" -> NestedAtoms(e.children, outer, depth)
                  [] OTHER -> NestedAtoms(e.children, None, 0)
         IN here \cup NestedAtoms(Tail(entries), outer, depth)

RECURSIVE ReachesFlag(_, _)
ReachesFlag(entries, flag) ==
    \E i \in 1..Len(entries) :
        LET e == entries[i]
        IN IF e.t = "UseConditional"
           THEN \/ e.flag = flag
                \/ /\ \/ e.flag \in use_config.solver_decided
                      \/ eager_include(use_config, e.flag, e.negate)
                   /\ ReachesFlag(e.children, flag)
           ELSE ReachesFlag(e.children, flag)

\* The positions of the unconditional Union(choice_union of flag) among the
\* requirements of solvable s.
ChoicePositions(s, flag) ==
    {k \in 1..Len(dependencies[s].requirements) :
        dependencies[s].requirements[k]
           = Req(None, "Union", flag_virtuals[flag].choice_union)}

\* The choice union of flag lists the NotUSE virtual's version set first,
\* then the USE virtual's.
NotUseFirst(flag) ==
    LET u == resolve_version_set_union(pool, flag_virtuals[flag].choice_union)
    IN /\ Len(u) = 2
       /\ resolve_name(pool, version_set_name(pool, u[1])).cpn
             = "virtual/NotUSE_" \o flag
       /\ resolve_name(pool, version_set_name(pool, u[2])).cpn
             = "virtual/USE_" \o flag

\* The solvables whose dependencies have been recorded.
CompiledPackages == DOMAIN dependencies \cap SolvableIds(pool)

RECURSIVE AnyOfAtoms(_)
AnyOfAtoms(alternatives) ==
    IF alternatives = <<>> THEN {}
    ELSE LET e == Head(alternatives)
             here ==
                CASE e.t = "Atom" -> IF e.dep.blocker = None THEN {e.dep} ELSE {}
                  [] e.t = "AnyOf" -> AnyOfAtoms(e.children)
                  [] e.t = "UseConditional" ->
                       IF \/ e.flag \in use_config.solver_decided
                          \/ eager_include(use_config, e.flag, e.negate)
                       THEN AnyOfAtoms(e.children) ELSE {}
                  [] OTHER -> {}
         IN here \cup AnyOfAtoms(Tail(alternatives))

\* The requirements of solvable s that ask for a version set of one of the
\* atoms in deps.
GroupRequirements(s, deps) ==
    {k \in 1..Len(dependencies[s].requirements) :
        \E o \in origins :
            /\ o.owner = Some(s) /\ o.dep \in deps
            /\ \E j \in 1..Len(o.vs_ids) :
                  ReqMentions(dependencies[s].requirements[k], o.vs_ids[j])}

\* C25. Every || ( ) group at the top level of a tree gives its solvable
\* exactly one requirement, and that requirement asks for the version sets
\* of all the group's alternatives, nested ones included.
C25_AnyOfIsOneDisjunction ==
    \A s \in CompiledPackages :
        \A i \in 1..Len(AllEntries(MetaOf(s))) :
            LET e == AllEntries(MetaOf(s))[i]
            IN (/\ e.t = "AnyOf"
                /\ AnyOfAtoms(e.children) # {}
                /\ \A dep \in AnyOfAtoms(e.children) : UniqueAtom(s, dep))
               => /\ Cardinality(GroupRequirements(s, AnyOfAtoms(e.children))) = 1
                  /\ \A k \in GroupRequirements(s, AnyOfAtoms(e.children)) :
                        \A dep \in AnyOfAtoms(e.children) :
                           k \in GroupRequirements(s, {dep})

\* ------------------------------------------------------------------------
\* ^^ ( ) and ?? ( ) groups
\* ------------------------------------------------------------------------
\* The ^^ ( ) and ?? ( ) groups anywhere in `entries`.
RECURSIVE OneOfGroups(_)
OneOfGroups(entries) ==
    IF entries = <<>> THEN {}
    ELSE (IF Head(entries).t \in {"ExactlyOneOf", "AtMostOneOf"}
          THEN {Head(entries)} ELSE {})
         \cup OneOfGroups(Head(entries).children)
         \cup OneOfGroups(Tail(entries))

\* Every alternative of group e of solvable s is a plain atom that stands
\* nowhere else.
PlainGroup(s, e) ==
    /\ e.children # <<>>
    /\ \A i \in 1..Len(e.children) :
          /\ e.children[i].t = "Atom"
          /\ e.children[i].dep.blocker = None
          /\ UniqueAtom(s, e.children[i].dep)

\* The virtual solvables with the given CPN, and the version sets on it.
VirtualsNamed(cpn) == {sid \in SolvableIds(pool) : MetaOf(sid).cpv.cpn = cpn}
VersionSetsOn(cpn) ==
    {vs \in VersionSetIds(pool) : resolve_version_set(pool, vs).cpn = cpn}

XofCpn(g, tag) == "virtual/xof_" \o ToString(g) \o "_" \o tag

\* The requirements of virtual `sid` are exactly one, asking for atom dep
\* of solvable s.
RequiresOnly(sid, s, dep) ==
    /\ sid \in DOMAIN dependencies
    /\ Len(dependencies[sid].requirements) = 1
    /\ dependencies[sid].requirements[1] \in RequirementsOf(s, dep)

\* The group ids whose first numbered virtual carries the first alternative
\* of group e of solvable s.
GroupOf(s, e) ==
    {g \in 0..(xof_counter - 1) :
        \E sid \in VirtualsNamed(XofCpn(g, "0")) :
            RequiresOnly(sid, s, e.children[1].dep)}

\* The version sets of the choices of group g in union order: the `none`
\* virtual first when there is one, then the numbered virtuals.
ChoiceVersionSets(g, n, with_none) ==
    (IF with_none
     THEN <<CHOOSE vs \in VersionSetsOn(XofCpn(g, "none")) : TRUE>> ELSE <<>>)
    \o [i \in 1..n |-> CHOOSE vs \in VersionSetsOn(XofCpn(g, ToString(i - 1))) : TRUE]

\* Group e of solvable s was compiled as group g: one virtual per
\* alternative in source order, a leading `none` virtual without
\* requirements exactly for ?? ( ), and the union of all of them, in that
\* order, among the requirements of s.
CompiledAsGroup(s, e, g) ==
    LET n == Len(e.children)
        with_none == (e.t = "AtMostOneOf")
        virtuals == {sid \in SolvableIds(pool) : MetaOf(sid).cpv.cpn \in XofCpns(g)}
    IN /\ Cardinality(virtuals) = n + (IF with_none THEN 1 ELSE 0)
       /\ Cardinality(VirtualsNamed(XofCpn(g, "none"))) = (IF with_none THEN 1 ELSE 0)
       /\ \A sid \in VirtualsNamed(XofCpn(g, "none")) :
             /\ sid \in DOMAIN dependencies
             /\ dependencies[sid].requirements = <<>>
             /\ \A other \in virtuals : sid <= other
       /\ \A i \in 1..n :
             /\ Cardinality(VirtualsNamed(XofCpn(g, ToString(i - 1)))) = 1
             /\ Cardinality(VersionSetsOn(XofCpn(g, ToString(i - 1)))) = 1
             /\ \A sid \in VirtualsNamed(XofCpn(g, ToString(i - 1))) :
                   RequiresOnly(sid, s, e.children[i].dep)
       /\ Cardinality(VersionSetsOn(XofCpn(g, "none"))) = (IF with_none THEN 1 ELSE 0)
       /\ \E k \in 1..Len(dependencies[s].requirements) :
             LET r == dependencies[s].requirements[k]
             IN /\ r.kind = "Union"
                /\ resolve_version_set_union(pool, r.id)
                      = ChoiceVersionSets(g, n, with_none)

\* C26. A ?? ( ) group of N plain alternatives yields N+1 virtual choice
\* solvables, the first a `none` virtual without requirements, and the
\* parent's Union lists `none` first and then the alternatives in source
\* order; a ^^ ( ) group yields exactly N virtuals and no `none`.
C26_GroupVirtuals ==
    \A s \in CompiledPackages :
        \A e \in OneOfGroups(AllEntries(MetaOf(s))) :
            (PlainGroup(s, e) /\ Len(e.children) >= 2)
            => /\ Cardinality(GroupOf(s, e)) = 1
               /\ \A g \in GroupOf(s, e) : CompiledAsGroup(s, e, g)

\* Both a ^^ ( ) group of three alternatives and a ?? ( ) group of two
\* have been compiled.
C26_Witness ==
    \E s, t \in CompiledPackages :
        /\ \E e \in OneOfGroups(AllEntries(MetaOf(s))) :
              e.t = "ExactlyOneOf" /\ Len(e.children) = 3 /\ PlainGroup(s, e)
        /\ \E e \in OneOfGroups(AllEntries(MetaOf(t))) :
              e.t = "AtMostOneOf" /\ Len(e.children) = 2 /\ PlainGroup(t, e)

\* ------------------------------------------------------------------------
\* Candidate lists
\* ------------------------------------------------------------------------
\* The (name, position) pairs at which solvable sid stands in a candidate
\* list.
CandidateSlots(sid) ==
    {nk \in (DOMAIN candidates) \X (1..Len(pool.solvables)) :
        nk[2] <= Len(candidates[nk[1]]) /\ candidates[nk[1]][nk[2]] = sid}

\* C27. After construction every solvable id stands in exactly one
\* candidate list, exactly once, and the list is that of the name
\* solvable_name returns for it.
C27_OneCandidateListPerSolvable ==
    Constructed =>
        \A sid \in SolvableIds(pool) :
            /\ Cardinality(CandidateSlots(sid)) = 1
            /\ \A nk \in CandidateSlots(sid) : nk[1] = solvable_name(pool, sid)

\* A constructed provider holds a repository solvable, an injected
\* installed solvable, a flag virtual and a group virtual.
C27_Witness ==
    /\ Constructed
    /\ \E sid \in SolvableIds(pool) : InRepo(MetaOf(sid).cpv)
    /\ \E i \in 1..Len(installed) :
          /\ ~InRepo(installed[i].meta.cpv)
          /\ SolvablesOf(installed[i].meta.cpv) # {}
    /\ \E flag \in DOMAIN flag_virtuals :
          VirtualsNamed("virtual/USE_" \o flag) # {}
    /\ xof_counter > 0 /\ VirtualsNamed(XofCpn(0, "0")) # {}

\* ------------------------------------------------------------------------
\* Names of version sets
\* ------------------------------------------------------------------------
\* The name of version set vs has the CPN of its constraint and, when the
\* constraint names a slot, that slot.
NameFitsConstraint(vs) ==
    LET constraint == resolve_version_set(pool, vs)
        name == resolve_name(pool, version_set_name(pool, vs))
    IN /\ name.cpn = constraint.cpn
       /\ constraint.slot # None => name.slot = constraint.slot

\* C28. Every version set of the provider's pool has one name; the name has
\* the constraint's CPN and, when the constraint names a slot, that slot;
\* and no step changes the name or the constraint of an id already issued.
C28_VersionSetNameFits ==
    /\ [](/\ Len(pool.version_set_names) = Len(pool.version_sets)
          /\ \A vs \in VersionSetIds(pool) : NameFitsConstraint(vs))
    /\ [][/\ IsPrefix(pool.version_set_names, pool'.version_set_names)
          /\ IsPrefix(pool.version_sets, pool'.version_sets)]_vars

\* The pool holds a version set with a slot, one without a slot on a CPN of
\* several slots, one of a virtual, and one interned by intern_requirement.
C28_Witness ==
    /\ \E vs \in VersionSetIds(pool) : resolve_version_set(pool, vs).slot # None
    /\ \E vs \in VersionSetIds(pool) :
          LET constraint == resolve_version_set(pool, vs)
          IN /\ constraint.slot = None
             /\ constraint.cpn \in DOMAIN cpn_slots
             /\ Len(cpn_slots[constraint.cpn]) >= 2
    /\ \E o \in origins :
          /\ o.site = "intern_requirement"
          /\ \A x \in origins \ {o} :
                SeqToSet(x.vs_ids) \cap SeqToSet(o.vs_ids) = {}

\* ------------------------------------------------------------------------
\* Blockers under USE conditionals on solver-decided flags
\* ------------------------------------------------------------------------
\* The USE conditionals on solver-decided flags that stand at the top level
\* of `entries` or directly inside a top-level || ( ) group.
TopConditionals(entries) ==
    {e \in SeqToSet(entries) \cup
           UNION {SeqToSet(g.children) : g \in {x \in SeqToSet(entries) : x.t = "AnyOf"}} :
        e.t = "UseConditional" /\ e.flag \in use_config.solver_decided}

====
